---------------------------- MODULE Spec2Model ----------------------------
(***************************************************************************)
(* A model of jibarix/simple_weather_app: the chat service that lets a     *)
(* generative model invoke the weather tool, in its two deployments:       *)
(*   "local": chat_service/main.py + chat_service/llama_client.py +        *)
(*            mcp_server/tools/weather_tool.py (in-process tool)           *)
(*   "mcp":   api_layer/main.py + chat_service/chat_handler.py +           *)
(*            mcp_client/chat_handler.py + mcp_server/server.py            *)
(*                                                                         *)
(* Text is a sequence of chunks.  A chunk is one whitespace or punctuation *)
(* character (" ", "{", "}", the double quote, ":", ",", "(", ")", "=",    *)
(* ".") or a maximal run of word characters ("weather", "Paris").  Every   *)
(* string operation of the source that the model needs (find, split,       *)
(* strip, re.sub, the brace scan, json.loads, re.search) acts on chunks    *)
(* exactly as it acts on the characters they stand for.  The alphabet has  *)
(* no backslash, digit-only or bracket chunks, so JSON escapes, numbers,   *)
(* literals and arrays do not occur in generated text.                     *)
(***************************************************************************)
EXTENDS Integers, Sequences, FiniteSets, TLC

(***************************************************************************)
(* Bounds of the model.                                                    *)
(***************************************************************************)
NumSessions == 2

\* the longest fragment (in chunks) the model hands over in one token
MaxToken == 4

Sessions == 1..NumSessions

\* how often an extractor is called on one text
MaxCalls == 2

(***************************************************************************)
(* Characters.                                                             *)
(***************************************************************************)
QUOTE == "\""

\* str.isspace / the regex class \s
IsSpace(c) == c \in {" ", "\n"}

\* the regex class \w on a chunk: a run of word characters
IsWordChunk(c) == c \notin {" ", "\n", "{", "}", QUOTE, ":", ",", "(", ")", "=", ".", "'"}

Max(a, b) == IF a >= b THEN a ELSE b

\* len(s) in characters of a chunk sequence
RECURSIVE CharLen(_)
CharLen(s) == IF s = <<>> THEN 0 ELSE Len(Head(s)) + CharLen(Tail(s))

\* s[i-1:] in Python terms: the suffix starting at index i
Suffix(s, i) == SubSeq(s, i, Len(s))

\* str.find(c): the first index holding c, 0 when there is none (Python: -1)
RECURSIVE FindFrom(_, _, _)
FindFrom(s, c, i) ==
    IF i > Len(s) THEN 0
    ELSE IF s[i] = c THEN i
    ELSE FindFrom(s, c, i + 1)

Find(s, c) == FindFrom(s, c, 1)

\* str.lstrip / str.rstrip / str.strip
RECURSIVE LStrip(_)
LStrip(s) == IF s # <<>> /\ IsSpace(Head(s)) THEN LStrip(Tail(s)) ELSE s

RECURSIVE RStrip(_)
RStrip(s) ==
    IF s # <<>> /\ IsSpace(s[Len(s)]) THEN RStrip(SubSeq(s, 1, Len(s) - 1)) ELSE s

Strip(s) == LStrip(RStrip(s))

\* re.sub(r"\s+", " ", s): every run of whitespace becomes one space
RECURSIVE CollapseWs(_)
CollapseWs(s) ==
    IF s = <<>> THEN <<>>
    ELSE IF IsSpace(Head(s))
         THEN <<" ">> \o CollapseWs(LStrip(s))
         ELSE <<Head(s)>> \o CollapseWs(Tail(s))

\* the length of the leading run of non-whitespace chunks
RECURSIVE WordRun(_)
WordRun(s) == IF s = <<>> \/ IsSpace(Head(s)) THEN 0 ELSE 1 + WordRun(Tail(s))

\* str.split(): the maximal runs of non-whitespace, in order
RECURSIVE Split(_)
Split(s) ==
    LET t == LStrip(s)
        n == WordRun(t)
    IN IF t = <<>> THEN <<>>
       ELSE <<SubSeq(t, 1, n)>> \o Split(Suffix(t, n + 1))

(***************************************************************************)
(* JSON values, as json.loads builds them: a str or a dict.  A dict keeps  *)
(* its members in source order; lookups take the last one (json.loads      *)
(* lets a repeated key overwrite).  NoneVal is Python's None.              *)
(***************************************************************************)
NoneVal == [kind |-> "none", s |-> <<>>, m |-> <<>>]

StrVal(s) == [kind |-> "str", s |-> s, m |-> <<>>]

ObjVal(m) == [kind |-> "obj", s |-> <<>>, m |-> m]

\* dict.get(key, default)
RECURSIVE GetFrom(_, _, _, _)
GetFrom(m, key, default, i) ==
    IF i = 0 THEN default
    ELSE IF m[i].k = key THEN m[i].v
    ELSE GetFrom(m, key, default, i - 1)

Get(obj, key, default) == GetFrom(obj.m, key, default, Len(obj.m))

\* "key in dict"
HasKey(obj, key) == \E i \in 1..Len(obj.m) : obj.m[i].k = key

\* Python truthiness of None, a str, a dict
Truthy(v) ==
    CASE v.kind = "none" -> FALSE
      [] v.kind = "str"  -> v.s # <<>>
      [] v.kind = "obj"  -> v.m # <<>>

(***************************************************************************)
(* json.loads on a chunk sequence.  A parse result is                      *)
(* [ok, v, next]: next is the index after the value.                       *)
(***************************************************************************)
ParseFail == [ok |-> FALSE, v |-> NoneVal, next |-> 0]

RECURSIVE SkipWs(_, _)
SkipWs(t, i) == IF i <= Len(t) /\ IsSpace(t[i]) THEN SkipWs(t, i + 1) ELSE i

\* a string literal starting at the quote t[i]: up to the next quote
ParseString(t, i) ==
    LET j == FindFrom(t, QUOTE, i + 1)
    IN IF i > Len(t) \/ t[i] # QUOTE \/ j = 0 THEN ParseFail
       ELSE [ok |-> TRUE, v |-> StrVal(SubSeq(t, i + 1, j - 1)), next |-> j + 1]

RECURSIVE ParseValue(_, _)
RECURSIVE ParseMembers(_, _, _)

\* the members of an object from index i (a key is expected there), acc the
\* members read so far
ParseMembers(t, i, acc) ==
    LET key   == ParseString(t, i)
        colon == SkipWs(t, key.next)
        val   == ParseValue(t, colon + 1)
        after == SkipWs(t, val.next)
    IN IF ~key.ok THEN ParseFail
       ELSE IF colon > Len(t) \/ t[colon] # ":" THEN ParseFail
       ELSE IF ~val.ok THEN ParseFail
       ELSE IF after > Len(t) THEN ParseFail
       ELSE IF t[after] = "}"
            THEN [ok |-> TRUE,
                  v |-> ObjVal(Append(acc, [k |-> key.v.s, v |-> val.v])),
                  next |-> after + 1]
       ELSE IF t[after] = ","
            THEN ParseMembers(t, SkipWs(t, after + 1),
                              Append(acc, [k |-> key.v.s, v |-> val.v]))
       ELSE ParseFail

ParseValue(t, i) ==
    LET j == SkipWs(t, i)
    IN IF j > Len(t) THEN ParseFail
       ELSE IF t[j] = QUOTE THEN ParseString(t, j)
       ELSE IF t[j] = "{"
            THEN LET k == SkipWs(t, j + 1)
                 IN IF k <= Len(t) /\ t[k] = "}"
                    THEN [ok |-> TRUE, v |-> ObjVal(<<>>), next |-> k + 1]
                    ELSE ParseMembers(t, k, <<>>)
       ELSE ParseFail

\* json.loads(t): one value, then only whitespace (else JSONDecodeError)
JsonLoads(t) ==
    LET r == ParseValue(t, 1)
    IN IF r.ok /\ SkipWs(t, r.next) > Len(t) THEN r ELSE ParseFail

(***************************************************************************)
(* LlamaClient._extract_tool_call (chat_service/llama_client.py).          *)
(***************************************************************************)
\* mutant of MatchClose: the candidate closes at the first closing brace
MatchCloseFirst(text, i, depth) == FindFrom(text, "}", i)

\* the loop over text[start:]: the index at which depth returns to 0, or 0
RECURSIVE MatchClose(_, _, _)
MatchClose(text, i, depth) ==
    IF i > Len(text) THEN 0
    ELSE IF text[i] = "{" THEN MatchClose(text, i + 1, depth + 1)
    ELSE IF text[i] = "}"
         THEN IF depth - 1 = 0 THEN i ELSE MatchClose(text, i + 1, depth - 1)
    ELSE MatchClose(text, i + 1, depth)

\* mutant of NoCall: the text handed back is trimmed
NoCallTrimmed(text) == [tool_name |-> NoneVal, params |-> NoneVal, clean |-> Strip(text)]

NoCall(text) == [tool_name |-> NoneVal, params |-> NoneVal, clean |-> text]

\* mutant of _extract_tool_call: the remaining text is trimmed but its
\* whitespace runs are kept
_extract_tool_call_uncollapsed(text) ==
    LET start == Find(text, "{")
        close == MatchClose(text, start, 0)
        candidate == SubSeq(text, start, close)
        tool_call == JsonLoads(candidate)
        clean == Strip(SubSeq(text, 1, start - 1) \o Suffix(text, close + 1))
    IN IF start = 0 THEN NoCall(text)
       ELSE IF close = 0 THEN NoCall(text)
       ELSE IF ~tool_call.ok THEN NoCall(text)
       ELSE [tool_name |-> Get(tool_call.v, <<"tool_name">>, NoneVal),
             params    |-> Get(tool_call.v, <<"parameters">>, ObjVal(<<>>)),
             clean     |-> clean]

_extract_tool_call(text) ==
    LET start == Find(text, "{")
        close == MatchClose(text, start, 0)
        candidate == SubSeq(text, start, close)
        tool_call == JsonLoads(candidate)
        clean == Strip(SubSeq(text, 1, start - 1) \o Suffix(text, close + 1))
    IN IF start = 0 THEN NoCall(text)
       ELSE IF close = 0 THEN NoCall(text)
       ELSE IF ~tool_call.ok THEN NoCall(text)
       ELSE [tool_name |-> Get(tool_call.v, <<"tool_name">>, NoneVal),
             params    |-> Get(tool_call.v, <<"parameters">>, ObjVal(<<>>)),
             clean     |-> CollapseWs(clean)]

(***************************************************************************)
(* LlamaClient._extract_tool_call of mcp_server/llama_client.py: the       *)
(* json_pattern of line 51 (an opening brace, no closing brace up to the   *)
(* quoted tool_name key, a colon, a quoted value, then up to the first     *)
(* closing brace) is searched, and the match taken out with str.replace.   *)
(***************************************************************************)
\* the quoted tool_name key, a colon and a quoted value matched at k,
\* whitespace allowed around the colon: the index after the closing quote
\* of the value, 0 when they do not match there
KeyMatchEnd(text, k) ==
    LET colon == SkipWs(text, k + 3)
        open  == SkipWs(text, colon + 1)
        close == FindFrom(text, QUOTE, open + 1)
    IN IF k + 2 > Len(text) THEN 0
       ELSE IF text[k] # QUOTE \/ text[k + 1] # "tool_name" \/ text[k + 2] # QUOTE
       THEN 0
       ELSE IF colon > Len(text) \/ text[colon] # ":" THEN 0
       ELSE IF open > Len(text) \/ text[open] # QUOTE THEN 0
       ELSE IF close = 0 THEN 0
       ELSE close + 1

\* the places k at which the key can be matched when the pattern starts at
\* the brace i: no closing brace before k, and one after the value
KeysFrom(text, i) ==
    { k \in (i + 1)..Len(text) :
        /\ \A j \in (i + 1)..(k - 1) : text[j] # "}"
        /\ KeyMatchEnd(text, k) # 0
        /\ FindFrom(text, "}", KeyMatchEnd(text, k)) # 0 }

SetMax(S) == CHOOSE x \in S : \A y \in S : y <= x

\* the end of the match that starts at i: the greedy first class keeps the
\* last key it can, the second one stops at the first closing brace
PatternEnd(text, i) ==
    FindFrom(text, "}", KeyMatchEnd(text, SetMax(KeysFrom(text, i))))

\* re.search: the leftmost brace at which the pattern matches, 0 for none
RECURSIVE SearchPattern(_, _)
SearchPattern(text, i) ==
    IF i > Len(text) THEN 0
    ELSE IF text[i] = "{" /\ KeysFrom(text, i) # {} THEN i
    ELSE SearchPattern(text, i + 1)

\* whether s starts with the non-empty pat
StartsWith(s, pat) == Len(pat) <= Len(s) /\ SubSeq(s, 1, Len(pat)) = pat

\* text.replace(pat, ''): every occurrence of pat is taken out, left to right
RECURSIVE Remove(_, _)
Remove(text, pat) ==
    IF text = <<>> THEN <<>>
    ELSE IF StartsWith(text, pat) THEN Remove(Suffix(text, Len(pat) + 1), pat)
    ELSE <<Head(text)>> \o Remove(Tail(text), pat)

mcp_server_extract_tool_call(text) ==
    LET start     == SearchPattern(text, 1)
        json_str  == SubSeq(text, start, PatternEnd(text, start))
        tool_call == JsonLoads(json_str)
        clean_text == Strip(Remove(text, json_str))
    IN IF start = 0 THEN NoCall(text)
       ELSE IF ~tool_call.ok THEN NoCall(text)
       ELSE [tool_name |-> Get(tool_call.v, <<"tool_name">>, NoneVal),
             params    |-> Get(tool_call.v, <<"parameters">>, ObjVal(<<>>)),
             clean     |-> Strip(CollapseWs(clean_text))]

(***************************************************************************)
(* ChatService._extract_function_call (chat_service/chat_handler.py).      *)
(***************************************************************************)
\* the end of the run of word chunks starting at i (i itself is a word chunk)
RECURSIVE WordEnd(_, _)
WordEnd(text, i) ==
    IF i + 1 <= Len(text) /\ IsWordChunk(text[i + 1]) THEN WordEnd(text, i + 1) ELSE i

\* whether (\w+)\s*\(\s*([^)]*)\s*\) matches with \w+ starting at i
CallMatchesAt(text, i) ==
    /\ i <= Len(text)
    /\ IsWordChunk(text[i])
    /\ LET open == SkipWs(text, WordEnd(text, i) + 1)
       IN /\ open <= Len(text)
          /\ text[open] = "("
          /\ FindFrom(text, ")", open + 1) # 0

\* re.search: the leftmost index at which the pattern matches, 0 for no match
RECURSIVE SearchCall(_, _)
SearchCall(text, i) ==
    IF i > Len(text) THEN 0
    ELSE IF CallMatchesAt(text, i) THEN i
    ELSE SearchCall(text, i + 1)

\* str.strip('"')
RECURSIVE LStripQuote(_)
LStripQuote(s) == IF s # <<>> /\ Head(s) = QUOTE THEN LStripQuote(Tail(s)) ELSE s

RECURSIVE RStripQuote(_)
RStripQuote(s) ==
    IF s # <<>> /\ s[Len(s)] = QUOTE THEN RStripQuote(SubSeq(s, 1, Len(s) - 1)) ELSE s

StripQuote(s) == LStripQuote(RStripQuote(s))

\* str.split(","): the pieces between the commas, empty ones kept
RECURSIVE SplitComma(_)
SplitComma(s) ==
    LET c == Find(s, ",")
    IN IF c = 0 THEN <<s>>
       ELSE <<SubSeq(s, 1, c - 1)>> \o SplitComma(Suffix(s, c + 1))

\* params[key] = value on a dict kept as a member sequence
RECURSIVE SetKey(_, _, _)
SetKey(m, key, value) ==
    IF m = <<>> THEN <<[k |-> key, v |-> value]>>
    ELSE IF Head(m).k = key THEN <<[k |-> key, v |-> value]>> \o Tail(m)
    ELSE <<Head(m)>> \o SetKey(Tail(m), key, value)

\* the loop "for param in params_str.split(','): if '=' in param: ..."
RECURSIVE NamedParams(_, _)
NamedParams(pieces, m) ==
    IF pieces = <<>> THEN m
    ELSE LET param == Head(pieces)
             eq    == Find(param, "=")
         IN IF eq = 0 THEN NamedParams(Tail(pieces), m)
            ELSE NamedParams(Tail(pieces),
                     SetKey(m, Strip(SubSeq(param, 1, eq - 1)),
                            StrVal(StripQuote(Strip(Suffix(param, eq + 1))))))

_extract_function_call(text) ==
    LET start      == SearchCall(text, 1)
        nameEnd    == WordEnd(text, start)
        open       == SkipWs(text, nameEnd + 1)
        close      == FindFrom(text, ")", open + 1)
        func_name  == StrVal(SubSeq(text, start, nameEnd))
        params_str == Strip(SubSeq(text, open + 1, close - 1))
        params     ==
            IF params_str # <<>> /\ Head(params_str) = QUOTE
                                 /\ params_str[Len(params_str)] = QUOTE
            THEN ObjVal(<<[k |-> <<"location">>,
                           v |-> StrVal(SubSeq(params_str, 2, Len(params_str) - 1))]>>)
            ELSE IF Find(params_str, "=") # 0
            THEN ObjVal(NamedParams(SplitComma(params_str), <<>>))
            ELSE ObjVal(<<[k |-> <<"location">>, v |-> StrVal(StripQuote(params_str))]>>)
        clean_text == SubSeq(text, 1, start - 1) \o Suffix(text, close + 1)
    IN IF start = 0 THEN NoCall(text)
       ELSE [tool_name |-> func_name,
             params    |-> params,
             clean     |-> Strip(CollapseWs(clean_text))]

(***************************************************************************)
(* The weather provider, as the tool sees it.  A response is what          *)
(* requests.get(...).json() gives: status "raise" stands for a             *)
(* requests.RequestException (network failure, timeout), status "json"     *)
(* for a decoded body.  A geocode body is a list of places or, as the      *)
(* provider sends for a rejected request, an object; a current-conditions  *)
(* body is an object, of which keys may be missing, or a list.             *)
(***************************************************************************)
GeoRaise == [status |-> "raise", kind |-> "none", items |-> <<>>]

GeoList(items) == [status |-> "json", kind |-> "list", items |-> items]

\* a non-empty JSON object in place of the list, e.g. {"cod": 401, ...}
GeoObject == [status |-> "json", kind |-> "object", items |-> <<>>]

Place(keys) == [keys |-> keys, lat |-> 18, lon |-> -66]

GeoResponses ==
    { GeoRaise, GeoList(<<>>), GeoObject,
      GeoList(<<Place({"lat", "lon"})>>), GeoList(<<Place({"lon"})>>) }

WxRaise ==
    [status |-> "raise", kind |-> "none", keys |-> {}, dt |-> 0, timezone |-> 0,
     main |-> [keys |-> {}, temp |-> 0, feels_like |-> 0, humidity |-> 0],
     wind |-> [keys |-> {}, speed |-> 0], weather |-> <<>>]

WxBody(temp) ==
    [status |-> "json", kind |-> "object",
     keys |-> {"dt", "timezone", "main", "wind", "weather"},
     dt |-> 7265, timezone |-> -3600,
     main |-> [keys |-> {"temp", "feels_like", "humidity"},
               temp |-> temp, feels_like |-> temp + 4, humidity |-> 77],
     wind |-> [keys |-> {"speed"}, speed |-> 12],
     weather |-> <<[keys |-> {"description"}, description |-> "sunny"]>>]

WxResponses ==
    { WxRaise, WxBody(86), WxBody(41),
      [WxBody(86) EXCEPT !.kind = "list"],
      [WxBody(86) EXCEPT !.keys = @ \ {"dt"}],
      [WxBody(86) EXCEPT !.keys = @ \ {"timezone"}],
      [WxBody(86) EXCEPT !.keys = @ \ {"wind"}],
      [WxBody(86) EXCEPT !.weather = <<>>],
      [WxBody(86) EXCEPT !.main.keys = @ \ {"temp"}],
      [WxBody(86) EXCEPT !.wind.keys = @ \ {"speed"}] }

(***************************************************************************)
(* A tool result: the dict the dispatcher returns.  kind "error" is        *)
(* {"error": error}, kind "payload" the weather fields of                  *)
(* weather_tool.py, kind "result" the {"result": text} of MCPClient.       *)
(***************************************************************************)
NoPayload ==
    [location |-> <<>>, local_time |-> 0, temperature |-> 0, feels_like |-> 0,
     humidity |-> 0, wind_speed |-> 0, description |-> ""]

ErrorResult(msg) == [kind |-> "error", error |-> msg, payload |-> NoPayload]

PayloadResult(p) == [kind |-> "payload", error |-> <<>>, payload |-> p]

NoResult == [kind |-> "none", error |-> <<>>, payload |-> NoPayload]

\* str(v) of a value put into an f-string
TextOf(v) ==
    CASE v.kind = "str"  -> v.s
      [] v.kind = "obj"  -> <<"<dict>">>
      [] v.kind = "none" -> <<"None">>

\* str.upper() on the region codes of the model
UpperChunk(c) ==
    CASE c = "fr" -> "FR"
      [] c = "pr" -> "PR"
      [] OTHER    -> c

Upper(s) == [i \in 1..Len(s) |-> UpperChunk(s[i])]

\* the parts of "City, CC": loc.split(",", 1), each stripped
CityOf(loc) == Strip(SubSeq(loc, 1, Find(loc, ",") - 1))

CodeOf(loc) == Strip(Suffix(loc, Find(loc, ",") + 1))

\* mutant of Label: the region code is printed as it was typed
LabelAsTyped(loc) == CityOf(loc) \o <<",", " ">> \o CodeOf(loc)

\* f"{city}, {cc.upper()}"
Label(loc) == CityOf(loc) \o <<",", " ">> \o Upper(CodeOf(loc))

\* dt.datetime.utcfromtimestamp(unix_utc + tz_shift).strftime("%Y-%m-%d %H:%M"):
\* the text names a minute, so it is kept as minutes since the epoch
LocalTime(wx) ==
    (wx.dt + (IF "timezone" \in wx.keys THEN wx.timezone ELSE 0)) \div 60

\* the try block of step 4 raises KeyError, IndexError or TypeError
WxUnreadable(wx) ==
    \/ wx.kind # "object"
    \/ ~({"dt", "main", "wind", "weather"} \subseteq wx.keys)
    \/ wx.weather = <<>>
    \/ "description" \notin wx.weather[1].keys

\* mutant of WxPayload: the temperature and the felt temperature change
\* places
WxPayloadSwapped(loc, wx) ==
    [location    |-> Label(loc),
     local_time  |-> LocalTime(wx),
     temperature |-> wx.main.feels_like,
     feels_like  |-> wx.main.temp,
     humidity    |-> wx.main.humidity,
     wind_speed  |-> wx.wind.speed,
     description |-> wx.weather[1].description]

WxPayload(loc, wx) ==
    [location    |-> Label(loc),
     local_time  |-> LocalTime(wx),
     temperature |-> wx.main.temp,
     feels_like  |-> wx.main.feels_like,
     humidity    |-> wx.main.humidity,
     wind_speed  |-> wx.wind.speed,
     description |-> wx.weather[1].description]

\* what a call of the tool comes to: it returns a result or raises, having
\* made the provider calls of "calls"
Returns(result, calls) == [outcome |-> "return", result |-> result, calls |-> calls]

Raises(exc, calls) == [outcome |-> "raise", result |-> ErrorResult(<<exc>>), calls |-> calls]

\* the provider answers the current-conditions call only if the call is
\* made: r is what the tool comes to when that call fails
WxAnswers(r) == IF Len(r.calls) = 2 THEN WxResponses ELSE {WxRaise}

\* mutant of execute_tool: the location is validated before the tool name
\* is looked at
execute_tool_validates_first(tool_name, parameters, geo, wx) ==
    LET value == Get(parameters, <<"location">>, StrVal(<<>>))
        loc   == Strip(value.s)
    IN IF parameters.kind # "obj" THEN Raises("AttributeError", <<>>)
       ELSE IF value.kind # "str" THEN Raises("AttributeError", <<>>)
       ELSE IF Find(loc, ",") = 0
       THEN Returns(ErrorResult(<<"Location must be 'City, CC' (e.g. 'San Juan, PR')">>), <<>>)
       ELSE IF CharLen(CodeOf(loc)) # 2
       THEN Returns(ErrorResult(<<"Country/state code must be two letters">>), <<>>)
       ELSE IF tool_name # StrVal(<<"weather">>)
       THEN Returns(ErrorResult(<<"Unknown tool: ">> \o TextOf(tool_name)), <<>>)
       ELSE IF geo.status = "raise"
       THEN Returns(ErrorResult(<<"Geocoding failed: ">>), <<"geo">>)
       ELSE IF geo.kind = "list" /\ geo.items = <<>>
       THEN Returns(ErrorResult(<<"Location not found: ">> \o Label(loc)), <<"geo">>)
       ELSE IF geo.kind # "list" THEN Raises("KeyError", <<"geo">>)
       ELSE IF ~({"lat", "lon"} \subseteq geo.items[1].keys)
       THEN Raises("KeyError", <<"geo">>)
       ELSE IF wx.status = "raise"
       THEN Returns(ErrorResult(<<"Weather request failed: ">>), <<"geo", "wx">>)
       ELSE IF WxUnreadable(wx)
       THEN Returns(ErrorResult(<<"Unexpected response format from OpenWeather">>),
                    <<"geo", "wx">>)
       ELSE IF ~({"temp", "feels_like", "humidity"} \subseteq wx.main.keys)
       THEN Raises("KeyError", <<"geo", "wx">>)
       ELSE IF "speed" \notin wx.wind.keys THEN Raises("KeyError", <<"geo", "wx">>)
       ELSE Returns(PayloadResult(WxPayload(loc, wx)), <<"geo", "wx">>)

(***************************************************************************)
(* execute_tool (mcp_server/tools/weather_tool.py), given what the         *)
(* provider answers to the geocode call (geo) and to the                   *)
(* current-conditions call (wx).                                           *)
(***************************************************************************)
execute_tool(tool_name, parameters, geo, wx) ==
    LET value == Get(parameters, <<"location">>, StrVal(<<>>))
        loc   == Strip(value.s)
    IN IF tool_name # StrVal(<<"weather">>)
       THEN Returns(ErrorResult(<<"Unknown tool: ">> \o TextOf(tool_name)), <<>>)
       ELSE IF parameters.kind # "obj" THEN Raises("AttributeError", <<>>)
       ELSE IF value.kind # "str" THEN Raises("AttributeError", <<>>)
       ELSE IF Find(loc, ",") = 0
       THEN Returns(ErrorResult(<<"Location must be 'City, CC' (e.g. 'San Juan, PR')">>), <<>>)
       ELSE IF CharLen(CodeOf(loc)) # 2
       THEN Returns(ErrorResult(<<"Country/state code must be two letters">>), <<>>)
       ELSE IF geo.status = "raise"
       THEN Returns(ErrorResult(<<"Geocoding failed: ">>), <<"geo">>)
       ELSE IF geo.kind = "list" /\ geo.items = <<>>
       THEN Returns(ErrorResult(<<"Location not found: ">> \o Label(loc)), <<"geo">>)
       ELSE IF geo.kind # "list" THEN Raises("KeyError", <<"geo">>)
       ELSE IF ~({"lat", "lon"} \subseteq geo.items[1].keys)
       THEN Raises("KeyError", <<"geo">>)
       ELSE IF wx.status = "raise"
       THEN Returns(ErrorResult(<<"Weather request failed: ">>), <<"geo", "wx">>)
       ELSE IF WxUnreadable(wx)
       THEN Returns(ErrorResult(<<"Unexpected response format from OpenWeather">>),
                    <<"geo", "wx">>)
       ELSE IF ~({"temp", "feels_like", "humidity"} \subseteq wx.main.keys)
       THEN Raises("KeyError", <<"geo", "wx">>)
       ELSE IF "speed" \notin wx.wind.keys THEN Raises("KeyError", <<"geo", "wx">>)
       ELSE Returns(PayloadResult(WxPayload(loc, wx)), <<"geo", "wx">>)

(***************************************************************************)
(* get_weather, handle_call_tool (mcp_server/server.py) and                *)
(* MCPClient.call_tool (mcp_client/chat_handler.py): the tool as the       *)
(* "mcp" deployment reaches it.                                            *)
(***************************************************************************)
get_weather(location, geo, wx) ==
    IF Find(location, ",") = 0
    THEN Returns(ErrorResult(<<"Location must be 'City, CC' format">>), <<>>)
    ELSE IF CharLen(CodeOf(location)) # 2
    THEN Returns(ErrorResult(<<"Country/state code must be two letters">>), <<>>)
    ELSE IF geo.status = "raise"
    THEN Returns(ErrorResult(<<"Weather API request failed: ">>), <<"geo">>)
    ELSE IF geo.kind = "list" /\ geo.items = <<>>
    THEN Returns(ErrorResult(<<"Location not found: ">> \o Label(location)), <<"geo">>)
    ELSE IF geo.kind # "list" \/ ~({"lat", "lon"} \subseteq geo.items[1].keys)
    THEN Returns(ErrorResult(<<"Unexpected response format: ">>), <<"geo">>)
    ELSE IF wx.status = "raise"
    THEN Returns(ErrorResult(<<"Weather API request failed: ">>), <<"geo", "wx">>)
    ELSE IF \/ WxUnreadable(wx)
            \/ ~({"temp", "feels_like", "humidity"} \subseteq wx.main.keys)
            \/ "speed" \notin wx.wind.keys
    THEN Returns(ErrorResult(<<"Unexpected response format: ">>), <<"geo", "wx">>)
    ELSE Returns(PayloadResult(WxPayload(location, wx)), <<"geo", "wx">>)

\* the CallToolResult of the server: isError with the text, or the
\* format_weather_result text (kept as the fields it prints)
handle_call_tool(name, arguments, geo, wx) ==
    LET r == get_weather(Get(arguments, <<"location">>, StrVal(<<>>)).s, geo, wx)
    IN IF name # StrVal(<<"weather">>)
       THEN Returns(ErrorResult(<<"Unknown tool: ">> \o TextOf(name)), <<>>)
       ELSE IF r.result.kind = "error" THEN r
       ELSE Returns([r.result EXCEPT !.kind = "result"], r.calls)

(***************************************************************************)
(* Events yielded by stream_chat, and the frames the framers send.         *)
(***************************************************************************)
Event(type) ==
    [type |-> type, content |-> <<>>, tool_name |-> NoneVal,
     parameters |-> NoneVal, result |-> NoResult]

TokenEvent(content) == [Event("token") EXCEPT !.content = content]

ToolCallEvent(name, params) ==
    [Event("tool_call") EXCEPT !.tool_name = name, !.parameters = params]

ToolResultEvent(result) == [Event("tool_result") EXCEPT !.result = result]

ErrorEvent(content) == [Event("error") EXCEPT !.content = content]

EndEvent == Event("end")

\* the fixed notices of the two stream_chat implementations
LlamaNoticeText ==
    <<"\n", "\n", "Sorry, the weather tool is not currently enabled. Please enable it using the toggle above to use this feature.">>

ChatNoticeText ==
    <<"\n", "\n", "Sorry, tools are not currently enabled. Please enable the weather tool to use this feature.">>

Frame(type) == [type |-> type, content |-> <<>>, data |-> NoPayload]

ContentFrame(content) == [Frame("content") EXCEPT !.content = content]

\* format_tool_result (chat_service/main.py): the text of a weather payload
\* is kept as its opening words and the fields it prints
LocalFormat(result) ==
    IF result.kind = "payload"
    THEN [Frame("content") EXCEPT
            !.content = <<"\n", "\n", "Weather in ">> \o result.payload.location,
            !.data = result.payload]
    ELSE ContentFrame(<<"\n", "\n", "<dict>">>)

\* the frames generate_chat_stream (chat_service/main.py) sends for a chunk
LocalFrames(chunk) ==
    CASE chunk.type = "token" -> <<ContentFrame(chunk.content)>>
      [] chunk.type = "tool_call" -> <<>>
      [] chunk.type = "tool_result" ->
            IF chunk.result.kind = "error"
            THEN <<ContentFrame(<<"\n", "\n", "Error: ">> \o chunk.result.error)>>
            ELSE <<LocalFormat(chunk.result)>>
      [] chunk.type = "end" -> <<Frame("done")>>
      [] OTHER -> <<>>

\* format_tool_result (api_layer/main.py)
ApiFormat(result) ==
    IF result.kind = "result"
    THEN [Frame("content") EXCEPT
            !.content = <<"\n", "\n", "Weather in ">> \o result.payload.location,
            !.data = result.payload]
    ELSE ContentFrame(<<"\n", "\n", "<dict>">>)

\* the frames generate_chat_stream (api_layer/main.py) sends for a chunk
ApiFrames(chunk) ==
    CASE chunk.type = "token" -> <<ContentFrame(chunk.content)>>
      [] chunk.type = "tool_result" ->
            IF chunk.result.kind = "error"
            THEN <<ContentFrame(<<"\n", "\n", "Error: ">> \o chunk.result.error)>>
            ELSE <<ApiFormat(chunk.result)>>
      [] chunk.type = "error" ->
            <<[Frame("error") EXCEPT !.content = chunk.content]>>
      [] chunk.type = "end" -> <<Frame("done")>>
      [] OTHER -> <<>>

(***************************************************************************)
(* Generated texts: narrative before, a candidate, narrative after.        *)
(***************************************************************************)
Str(s) == <<QUOTE>> \o s \o <<QUOTE>>

Member(key, value) == Str(<<key>>) \o <<":">> \o value

Obj1(a) == <<"{">> \o a \o <<"}">>

Obj2(a, b) == <<"{">> \o a \o <<",">> \o b \o <<"}">>

\* {"tool_name": "<name>", "parameters": <params>}
Invocation(name, params) ==
    Obj2(Member("tool_name", Str(<<name>>)), Member("parameters", params))

Location(loc) == Obj1(Member("location", Str(loc)))

Paris == <<"Paris", ",", " ", "FR">>

WeatherParis == Invocation("weather", Location(Paris))

\* an invocation whose arguments hold a nested object
NestedInvocation ==
    Invocation("weather",
               Obj2(Member("location", Str(Paris)),
                    Member("options", Obj1(Member("units", Str(<<"imperial">>))))))

\* well-formed invocation objects: balanced, parseable, carrying a tool_name
WellFormedInvocations ==
    { WeatherParis,
      NestedInvocation,
      Invocation("weather", Location(<<"san", " ", "juan", ",", "pr">>)),
      Invocation("weather", Location(<<"Atlantis">>)),
      Invocation("weather", Location(<<"Paris", ",", " ", "FRA">>)),
      Invocation("weather", Obj1(Member("city", Str(<<"Paris">>)))),
      Invocation("weather", Obj1(Member("location", Location(Paris)))),
      Invocation("weather", Str(Paris)),
      Invocation("weather", <<"{", "}">>),
      Obj1(Member("tool_name", Str(<<"weather">>))),
      Invocation("forecast", Location(Paris)) }

\* brace candidates that are no invocation
OtherObjects ==
    { Obj1(Member("parameters", Location(Paris))),
      <<"{", "maybe", "}">>,
      <<"{">> \o Member("tool_name", Str(<<"weather">>)),
      Obj1(Member("tool_name", Str(<<"}">>))) }

\* call-syntax candidates: name(args)
Call(name, args) == <<name, "(">> \o args \o <<")">>

Calls ==
    { Call("weather", <<"location", "=">> \o Str(Paris)),
      Call("weather", Str(Paris)),
      Call("weather", Paris),
      Call("weather", <<"location", "=", "Atlantis">>),
      Call("forecast", Str(Paris)),
      <<"weather", "(">> \o Str(Paris) }

Before == { <<>>, <<"I", "'", "ll", " ", "check", ".", " ">> }

Apps == {"local", "mcp"}

\* what may follow the candidate: nothing, narrative, a second invocation
After(app) ==
    { <<>>, <<" ", "ok">>,
      <<" ">> \o (IF app = "local" THEN WeatherParis ELSE Call("weather", Str(Paris))) }

\* each deployment is given the candidates of the syntax it looks for, and
\* one of the other syntax
Candidates(app) ==
    IF app = "local"
    THEN WellFormedInvocations \cup OtherObjects \cup {<<>>, Call("weather", Str(Paris))}
    ELSE Calls \cup {<<>>, WeatherParis}

(***************************************************************************)
(* The JSON-RPC envelope: the body of a POST /rpc and the response of      *)
(* json_rpc_endpoint (chat_service/main.py, api_layer/main.py).            *)
(***************************************************************************)
\* kind "invalid": the body is no JSON text (request.json() raises);
\* "list": a JSON value that is no object; "dict": an object with the
\* members jsonrpc, method, id ("none"/"null" when missing) and params
\* (an object holding stream, or a value that is no object)
Body(kind, jsonrpc, method, id, params, stream) ==
    [kind |-> kind, jsonrpc |-> jsonrpc, method |-> method, id |-> id,
     params |-> params, stream |-> stream]

ChatBody(id, stream) == Body("dict", "2.0", "chat", id, "dict", stream)

InvalidBody == Body("invalid", "none", "none", "null", "none", FALSE)

ListBody == Body("list", "none", "none", "null", "none", FALSE)

Bodies ==
    { InvalidBody, ListBody }
    \cup { Body("dict", j, m, i, "dict", st) :
             j \in {"2.0", "1.0", "none"}, m \in {"chat", "tools", "none"},
             i \in {"null", "7"}, st \in BOOLEAN }
    \cup { Body("dict", j, m, i, "list", FALSE) :
             j \in {"2.0", "1.0", "none"}, m \in {"chat", "tools", "none"},
             i \in {"null", "7"} }

\* what the endpoint answers.  kind "stream": a StreamingResponse; "result":
\* {"jsonrpc", "result", "id"} where the result dict has the members of
\* keys; "error": {"jsonrpc", "error": {"code", "message"}, "id"}; "raise":
\* an exception leaves the endpoint
NoResponse ==
    [kind |-> "none", id |-> "null", code |-> 0, keys |-> {}, content |-> <<>>,
     tool_calls |-> <<>>, error |-> <<>>]

StreamingResponse == [NoResponse EXCEPT !.kind = "stream"]

ResultEnvelope(id, keys, content, tool_calls, error) ==
    [NoResponse EXCEPT !.kind = "result", !.id = id, !.keys = keys,
                       !.content = content, !.tool_calls = tool_calls,
                       !.error = error]

ErrorEnvelope(id) == [NoResponse EXCEPT !.kind = "error", !.id = id, !.code = -32603]

Unhandled(exc) == [NoResponse EXCEPT !.kind = "raise", !.error = <<exc>>]

(***************************************************************************)
(* State.                                                                  *)
(*   sess[s]  the chat request s and everything its handlers hold          *)
(*   loop[a]  the session whose code the event loop of deployment a is     *)
(*            running (0: the loop is free); code runs without             *)
(*            interruption up to its next suspension point                 *)
(*   llm      ChatService.llm: "none" or "loaded"                          *)
(*   orch     MCPOrchestrator.tools_enabled, one per process               *)
(*   client   MCPClient: connected, session, available_tools               *)
(***************************************************************************)
VARIABLES sess, loop, llm, orch, client

vars == <<sess, loop, llm, orch, client>>

\* a chat request that json_rpc_endpoint accepted with stream set: the
\* streaming response is created, its generator has not started
NewSession(app, enabled, before, cand, after) ==
    [app           |-> app,
     body          |-> ChatBody("7", TRUE),
     stream        |-> TRUE,
     response      |-> StreamingResponse,
     content       |-> <<>>,
     tools_enabled |-> enabled,
     before        |-> before,
     cand          |-> cand,
     after         |-> after,
     source        |-> before \o cand \o after,
     pc            |-> "new",
     response_text |-> <<>>,
     call          |-> NoCall(<<>>),
     detected      |-> FALSE,
     pending       |-> <<>>,
     result        |-> NoResult,
     exc           |-> "",
     events        |-> <<>>,
     frames        |-> <<>>,
     tool_calls    |-> <<>>,
     generations   |-> 0,
     extractions   |-> 0,
     dispatches    |-> 0,
     lookups       |-> <<>>]

\* no request
Idle == [NewSession("local", FALSE, <<>>, <<>>, <<>>) EXCEPT !.pc = "idle"]

ClientInit == [connected |-> FALSE, session |-> FALSE, available_tools |-> {}]

ClientUp == [connected |-> TRUE, session |-> TRUE, available_tools |-> {"weather"}]

RequestsOf(app) ==
    { NewSession(app, e, b, c, f) :
        e \in BOOLEAN, b \in Before, c \in Candidates(app), f \in After(app) }

Requests == UNION { RequestsOf(app) : app \in Apps }

\* one request, served by either deployment; the "mcp" process is as
\* constructed (ChatService.__init__, MCPClient.__init__, MCPOrchestrator.__init__)
Init ==
    /\ \E r \in Requests : sess = [s \in Sessions |-> IF s = 1 THEN r ELSE Idle]
    /\ loop = [a \in Apps |-> 0]
    /\ llm = "none"
    /\ orch = FALSE
    /\ client = ClientInit

CanRun(s) == loop[sess[s].app] \in {0, s}

\* the session keeps the event loop / gives it up at a suspension point
Hold(s) == loop' = [loop EXCEPT ![sess[s].app] = s]

Release(s) == loop' = [loop EXCEPT ![sess[s].app] = 0]

\* what generate_chat_response (chat_service/main.py) adds to content
LocalText(chunk) ==
    CASE chunk.type = "token" -> chunk.content
      [] chunk.type = "tool_result" ->
            IF chunk.result.kind = "error"
            THEN <<"\n", "\n", "Error: ">> \o chunk.result.error
            ELSE LocalFormat(chunk.result).content
      [] OTHER -> <<>>

\* mutant of ApiText: the error of a tool result is added without the
\* blank line before it
ApiTextNoBreak(chunk) ==
    CASE chunk.type = "token" -> chunk.content
      [] chunk.type = "tool_result" ->
            IF chunk.result.kind = "error"
            THEN <<"Error: ">> \o chunk.result.error
            ELSE ApiFormat(chunk.result).content
      [] OTHER -> <<>>

\* what generate_chat_response (api_layer/main.py) adds to content
ApiText(chunk) ==
    CASE chunk.type = "token" -> chunk.content
      [] chunk.type = "tool_result" ->
            IF chunk.result.kind = "error"
            THEN <<"\n", "\n", "Error: ">> \o chunk.result.error
            ELSE ApiFormat(chunk.result).content
      [] OTHER -> <<>>

\* generate_chat_response takes chunk: token and tool_result text is added
\* to content, the "local" deployment lists the tool calls; at the end
\* event the result dict is returned and json_rpc_endpoint wraps it, and in
\* the "mcp" deployment an error event returns {"error": ...} at once
Collect(r, chunk) ==
    LET content == r.content \o
                   (IF r.app = "local" THEN LocalText(chunk) ELSE ApiText(chunk))
        tool_calls == IF r.app = "local" /\ chunk.type = "tool_call"
                      THEN Append(r.tool_calls, [name |-> chunk.tool_name,
                                                 arguments |-> chunk.parameters])
                      ELSE r.tool_calls
    IN [r EXCEPT !.events = Append(@, chunk),
                 !.content = content,
                 !.tool_calls = tool_calls,
                 !.response =
                     IF chunk.type = "end"
                     THEN IF r.app = "local"
                          THEN ResultEnvelope(r.body.id, {"content", "tool_calls"},
                                              content, tool_calls, <<>>)
                          ELSE ResultEnvelope(r.body.id, {"content"}, content, <<>>, <<>>)
                     ELSE IF chunk.type = "error" /\ r.app = "mcp"
                     THEN ResultEnvelope(r.body.id, {"error"}, <<>>, <<>>, chunk.content)
                     ELSE @]

\* stream_chat yields chunk and the framer of the deployment relays it
Relay(r, chunk) ==
    [r EXCEPT !.events = Append(@, chunk),
              !.frames = @ \o (IF r.app = "local" THEN LocalFrames(chunk)
                                                  ELSE ApiFrames(chunk)),
              !.tool_calls =
                  IF r.app # "local" THEN @
                  ELSE IF chunk.type = "tool_call"
                       THEN Append(@, [name |-> chunk.tool_name,
                                       arguments |-> chunk.parameters])
                  ELSE IF chunk.type = "tool_result" THEN <<>>
                  ELSE @]

\* stream_chat yields chunk to the caller that iterates it
Yield(r, chunk) == IF r.stream THEN Relay(r, chunk) ELSE Collect(r, chunk)

\* after a chunk: a streaming response is suspended on the frame it sends,
\* generate_chat_response goes on with the next chunk
Sent(s) == IF sess[s].stream THEN Release(s) ELSE Hold(s)

Set(s, r) == sess' = [sess EXCEPT ![s] = r]

At(s, app, pc) == sess[s].app = app /\ sess[s].pc = pc /\ CanRun(s)

\* all of the model's output has been pulled
Exhausted(s) == Len(sess[s].response_text) = Len(sess[s].source)

\* the token the model yields next: the coming chunks of its output
NextToken(r) ==
    SubSeq(r.source, Len(r.response_text) + 1,
           IF Len(r.response_text) + MaxToken < Len(r.source)
           THEN Len(r.response_text) + MaxToken ELSE Len(r.source))

\* "if tool_name and parameters" / "if func_name and parameters"
Detected(call) == Truthy(call.tool_name) /\ Truthy(call.params)

(***************************************************************************)
(* Deployment "local": generate_chat_stream (chat_service/main.py) over    *)
(* LlamaClient.stream_chat (chat_service/llama_client.py).                 *)
(***************************************************************************)
\* the start frame is sent; the response is suspended on it
LocalStart(s) ==
    /\ At(s, "local", "new")
    /\ Set(s, [sess[s] EXCEPT !.pc = "ready",
                              !.frames = Append(@, Frame("start"))])
    /\ Release(s)
    /\ UNCHANGED <<llm, orch, client>>

\* stream_chat formats the prompt and calls self.llm(..., stream=True)
LlamaGenerate(s) ==
    /\ At(s, "local", "ready")
    /\ Set(s, [sess[s] EXCEPT !.pc = "gen", !.generations = @ + 1])
    /\ Hold(s)
    /\ UNCHANGED <<llm, orch, client>>

\* one turn of "for output in self.llm(...)": response_text += token
LlamaPull(s) ==
    /\ At(s, "local", "gen")
    /\ ~Exhausted(s)
    /\ Set(s, [sess[s] EXCEPT
                 !.response_text = @ \o NextToken(sess[s])])
    /\ Hold(s)
    /\ UNCHANGED <<llm, orch, client>>

\* the model raises while tokens are pulled: the try block is left and
\* the text accumulated so far is never read again
LlamaRaise(s) ==
    /\ At(s, "local", "gen")
    /\ Set(s, [sess[s] EXCEPT !.pc = "except", !.exc = "RuntimeError",
                              !.response_text = <<>>])
    /\ Hold(s)
    /\ UNCHANGED <<llm, orch, client>>

\* mutant of LlamaExtract: without a detection nothing is flushed
LlamaExtractNoFlush(s) ==
    /\ At(s, "local", "gen")
    /\ Exhausted(s)
    /\ LET call == _extract_tool_call(sess[s].response_text)
       IN Set(s, [sess[s] EXCEPT
                    !.pc = "words",
                    !.call = call,
                    !.detected = Detected(call),
                    !.extractions = @ + 1,
                    !.pending = IF Detected(call) THEN Split(call.clean)
                                ELSE <<>>])
    /\ Hold(s)
    /\ UNCHANGED <<llm, orch, client>>

\* lines 108-116 and 129-131: the extractor runs on the whole response
LlamaExtract(s) ==
    /\ At(s, "local", "gen")
    /\ Exhausted(s)
    /\ LET call == _extract_tool_call(sess[s].response_text)
       IN Set(s, [sess[s] EXCEPT
                    !.pc = "words",
                    !.call = call,
                    !.detected = Detected(call),
                    !.extractions = @ + 1,
                    !.pending = IF Detected(call) THEN Split(call.clean)
                                ELSE Split(sess[s].response_text)])
    /\ Hold(s)
    /\ UNCHANGED <<llm, orch, client>>

\* mutant of LlamaWord: a word that opens with a brace is dropped
LlamaWordDropsCandidate(s) ==
    /\ At(s, "local", "words")
    /\ sess[s].pending # <<>>
    /\ Set(s, [(IF Head(Head(sess[s].pending)) = "{" THEN sess[s]
                ELSE Yield(sess[s], TokenEvent(Head(sess[s].pending) \o <<" ">>)))
                 EXCEPT !.pending = Tail(@)])
    /\ Sent(s)
    /\ UNCHANGED <<llm, orch, client>>

\* yield {"type": "token", "content": word + " "}
LlamaWord(s) ==
    /\ At(s, "local", "words")
    /\ sess[s].pending # <<>>
    /\ Set(s, [Yield(sess[s], TokenEvent(Head(sess[s].pending) \o <<" ">>))
                 EXCEPT !.pending = Tail(@)])
    /\ Sent(s)
    /\ UNCHANGED <<llm, orch, client>>

\* lines 119-121: the tool_call event; the framer only records it
LlamaToolCall(s) ==
    /\ At(s, "local", "words")
    /\ sess[s].pending = <<>>
    /\ sess[s].detected
    /\ sess[s].tools_enabled
    /\ Set(s, [Yield(sess[s], ToolCallEvent(sess[s].call.tool_name,
                                            sess[s].call.params))
                 EXCEPT !.pc = "exec"])
    /\ Hold(s)
    /\ UNCHANGED <<llm, orch, client>>

\* lines 126-128: the notice that the tool is not enabled
LlamaNotice(s) ==
    /\ At(s, "local", "words")
    /\ sess[s].pending = <<>>
    /\ sess[s].detected
    /\ ~sess[s].tools_enabled
    /\ Set(s, [Yield(sess[s], TokenEvent(LlamaNoticeText)) EXCEPT !.pc = "end"])
    /\ Sent(s)
    /\ UNCHANGED <<llm, orch, client>>

\* line 124: execute_tool is entered; its lookups block the event loop
LlamaExecute(s) ==
    /\ At(s, "local", "exec")
    /\ Set(s, [sess[s] EXCEPT !.pc = "lookup", !.dispatches = @ + 1])
    /\ Hold(s)
    /\ UNCHANGED <<llm, orch, client>>

\* execute_tool returns or raises, whatever the provider answered
LlamaToolReturn(s) ==
    /\ At(s, "local", "lookup")
    /\ \E geo \in GeoResponses :
       \E wx \in WxAnswers(execute_tool(sess[s].call.tool_name,
                                        sess[s].call.params, geo, WxRaise)) :
          LET r == execute_tool(sess[s].call.tool_name, sess[s].call.params, geo, wx)
          IN Set(s, [sess[s] EXCEPT
                       !.lookups = r.calls,
                       !.result = IF r.outcome = "return" THEN r.result ELSE @,
                       !.exc = IF r.outcome = "raise" THEN r.result.error[1] ELSE @,
                       !.pc = IF r.outcome = "return" THEN "result" ELSE "except"])
    /\ Hold(s)
    /\ UNCHANGED <<llm, orch, client>>

\* mutant of LlamaToolResult: after the result the response is scanned again
LlamaToolResultRescans(s) ==
    /\ At(s, "local", "result")
    /\ Set(s, [Yield(sess[s], ToolResultEvent(sess[s].result)) EXCEPT !.pc = "gen"])
    /\ Sent(s)
    /\ UNCHANGED <<llm, orch, client>>

\* line 125
LlamaToolResult(s) ==
    /\ At(s, "local", "result")
    /\ Set(s, [Yield(sess[s], ToolResultEvent(sess[s].result)) EXCEPT !.pc = "end"])
    /\ Sent(s)
    /\ UNCHANGED <<llm, orch, client>>

\* lines 135-137: "except Exception" yields a token
LlamaError(s) ==
    /\ At(s, "local", "except")
    /\ Set(s, [Yield(sess[s], TokenEvent(<<"Error: ", sess[s].exc>>))
                 EXCEPT !.pc = "end"])
    /\ Sent(s)
    /\ UNCHANGED <<llm, orch, client>>

\* line 139; the framer sends the done frame and leaves its loop
LlamaEnd(s) ==
    /\ \/ At(s, "local", "end")
       \/ At(s, "local", "words") /\ sess[s].pending = <<>> /\ ~sess[s].detected
    /\ Set(s, [Yield(sess[s], EndEvent) EXCEPT !.pc = "done"])
    /\ Release(s)
    /\ UNCHANGED <<llm, orch, client>>

(***************************************************************************)
(* Deployment "mcp": generate_chat_stream (api_layer/main.py) over         *)
(* ChatHandler.handle_chat_stream and ChatService.stream_chat              *)
(* (chat_service/chat_handler.py), with the tool behind MCPOrchestrator    *)
(* and MCPClient (mcp_client/chat_handler.py).                             *)
(***************************************************************************)
ApiStart(s) ==
    /\ At(s, "mcp", "new")
    /\ Set(s, [sess[s] EXCEPT !.pc = "ready",
                              !.frames = Append(@, Frame("start"))])
    /\ Release(s)
    /\ UNCHANGED <<llm, orch, client>>

\* handle_chat_stream sets the orchestrator's gate, then stream_chat starts:
\* without a model it yields an error and returns, else it calls self.llm
ChatHandle(s) ==
    /\ At(s, "mcp", "ready")
    /\ orch' = sess[s].tools_enabled
    /\ IF llm = "none"
       THEN /\ Set(s, [Yield(sess[s], ErrorEvent(<<"Model not initialized">>))
                         EXCEPT !.pc = "done"])
            /\ Release(s)
       ELSE /\ Set(s, [sess[s] EXCEPT !.pc = "gen", !.generations = @ + 1])
            /\ Hold(s)
    /\ UNCHANGED <<llm, client>>

\* mutant of ChatPull: the loop gives up the event loop between two tokens
ChatPullSuspends(s) ==
    /\ At(s, "mcp", "gen")
    /\ ~Exhausted(s)
    /\ Set(s, [sess[s] EXCEPT
                 !.response_text = @ \o NextToken(sess[s])])
    /\ Release(s)
    /\ UNCHANGED <<llm, orch, client>>

\* lines 115-136: one turn of "for output in self.llm(...)"
ChatPull(s) ==
    /\ At(s, "mcp", "gen")
    /\ ~Exhausted(s)
    /\ Set(s, [sess[s] EXCEPT
                 !.response_text = @ \o NextToken(sess[s])])
    /\ Hold(s)
    /\ UNCHANGED <<llm, orch, client>>

ChatRaise(s) ==
    /\ At(s, "mcp", "gen")
    /\ Set(s, [sess[s] EXCEPT !.pc = "except", !.exc = "RuntimeError",
                              !.response_text = <<>>])
    /\ Hold(s)
    /\ UNCHANGED <<llm, orch, client>>

\* mutant of ChatExtract: the extractor runs on whatever has been pulled
ChatExtractEarly(s) ==
    /\ At(s, "mcp", "gen")
    /\ LET call == _extract_function_call(sess[s].response_text)
       IN Set(s, [sess[s] EXCEPT
                    !.pc = "words",
                    !.call = call,
                    !.detected = Detected(call),
                    !.extractions = @ + 1,
                    !.pending = IF Detected(call) THEN Split(call.clean)
                                ELSE Split(sess[s].response_text)])
    /\ Hold(s)
    /\ UNCHANGED <<llm, orch, client>>

\* lines 139-145 and 157-159
ChatExtract(s) ==
    /\ At(s, "mcp", "gen")
    /\ Exhausted(s)
    /\ LET call == _extract_function_call(sess[s].response_text)
       IN Set(s, [sess[s] EXCEPT
                    !.pc = "words",
                    !.call = call,
                    !.detected = Detected(call),
                    !.extractions = @ + 1,
                    !.pending = IF Detected(call) THEN Split(call.clean)
                                ELSE Split(sess[s].response_text)])
    /\ Hold(s)
    /\ UNCHANGED <<llm, orch, client>>

ChatWord(s) ==
    /\ At(s, "mcp", "words")
    /\ sess[s].pending # <<>>
    /\ Set(s, [Yield(sess[s], TokenEvent(Head(sess[s].pending) \o <<" ">>))
                 EXCEPT !.pending = Tail(@)])
    /\ Sent(s)
    /\ UNCHANGED <<llm, orch, client>>

\* mutant of ChatGate: the request's tools_enabled flag is not consulted
ChatGateIgnoresFlag(s) == sess[s].call.tool_name = StrVal(<<"weather">>)

\* line 149: "if tools_enabled and func_name == 'weather'"
ChatGate(s) == sess[s].tools_enabled /\ sess[s].call.tool_name = StrVal(<<"weather">>)

\* mutant of ChatToolCall: the gate held by the shared orchestrator is read
\* in place of the flag of the request
ChatToolCallSharedGate(s) ==
    /\ At(s, "mcp", "words")
    /\ sess[s].pending = <<>>
    /\ sess[s].detected
    /\ orch /\ sess[s].call.tool_name = StrVal(<<"weather">>)
    /\ Set(s, [Yield(sess[s], ToolCallEvent(sess[s].call.tool_name,
                                            sess[s].call.params))
                 EXCEPT !.pc = "call"])
    /\ Hold(s)
    /\ UNCHANGED <<llm, orch, client>>

\* line 150; the framer has no branch for tool_call and sends nothing
ChatToolCall(s) ==
    /\ At(s, "mcp", "words")
    /\ sess[s].pending = <<>>
    /\ sess[s].detected
    /\ ChatGate(s)
    /\ Set(s, [Yield(sess[s], ToolCallEvent(sess[s].call.tool_name,
                                            sess[s].call.params))
                 EXCEPT !.pc = "call"])
    /\ Hold(s)
    /\ UNCHANGED <<llm, orch, client>>

\* line 156
ChatNotice(s) ==
    /\ At(s, "mcp", "words")
    /\ sess[s].pending = <<>>
    /\ sess[s].detected
    /\ ~ChatGate(s)
    /\ Set(s, [Yield(sess[s], TokenEvent(ChatNoticeText)) EXCEPT !.pc = "end"])
    /\ Sent(s)
    /\ UNCHANGED <<llm, orch, client>>

\* mutant of call_tool: the name is not looked up in available_tools
call_tool_any_name(name) ==
    IF ~client.connected \/ ~client.session
    THEN ErrorResult(<<"Not connected to MCP server">>)
    ELSE NoResult

\* MCPClient.call_tool up to the request sent to the server: an error
\* result at once, or NoResult when the call is forwarded
call_tool(name) ==
    IF ~client.connected \/ ~client.session
    THEN ErrorResult(<<"Not connected to MCP server">>)
    ELSE IF \A t \in client.available_tools : name # StrVal(<<t>>)
    THEN ErrorResult(<<"Tool '">> \o TextOf(name) \o <<"' not available">>)
    ELSE NoResult

\* mutant of handle_tool_call: connectivity is looked at before the gate
handle_tool_call_connectivity_first(s) ==
    LET name == sess[s].call.tool_name
    IN IF ~client.connected THEN ErrorResult(<<"MCP server not connected">>)
       ELSE IF ~orch THEN ErrorResult(<<"Tools are disabled">>)
       ELSE call_tool(name)

\* MCPOrchestrator.handle_tool_call and MCPClient.call_tool up to the request
\* sent to the server: an error result at once, or the session waits for
\* the server's reply
handle_tool_call(s) ==
    LET name == sess[s].call.tool_name
    IN IF ~orch THEN ErrorResult(<<"Tools are disabled">>)
       ELSE IF ~client.connected THEN ErrorResult(<<"MCP server not connected">>)
       ELSE call_tool(name)

ChatDispatch(s) ==
    /\ At(s, "mcp", "call")
    /\ LET r == handle_tool_call(s)
       IN IF r = NoResult
          THEN /\ Set(s, [sess[s] EXCEPT !.pc = "rpc", !.dispatches = @ + 1])
               /\ Release(s)
          ELSE /\ Set(s, [sess[s] EXCEPT !.pc = "result", !.result = r,
                                         !.dispatches = @ + 1])
               /\ Hold(s)
    /\ UNCHANGED <<llm, orch, client>>

\* session.call_tool returns the server's CallToolResult, or raises
McpReply(s) ==
    /\ At(s, "mcp", "rpc")
    /\ \/ \E geo \in GeoResponses :
          \E wx \in WxAnswers(handle_call_tool(sess[s].call.tool_name,
                                               sess[s].call.params, geo, WxRaise)) :
            LET r == handle_call_tool(sess[s].call.tool_name, sess[s].call.params,
                                      geo, wx)
            IN Set(s, [sess[s] EXCEPT !.pc = "result", !.result = r.result,
                                      !.lookups = r.calls])
       \/ Set(s, [sess[s] EXCEPT !.pc = "result",
                                 !.result = ErrorResult(<<"Tool call failed: ">>)])
    /\ Hold(s)
    /\ UNCHANGED <<llm, orch, client>>

\* line 154
ChatToolResult(s) ==
    /\ At(s, "mcp", "result")
    /\ Set(s, [Yield(sess[s], ToolResultEvent(sess[s].result)) EXCEPT !.pc = "end"])
    /\ Sent(s)
    /\ UNCHANGED <<llm, orch, client>>

\* lines 163-165: "except Exception" yields an error event
ChatError(s) ==
    /\ At(s, "mcp", "except")
    /\ Set(s, [Yield(sess[s], ErrorEvent(<<"Generation error: ", sess[s].exc>>))
                 EXCEPT !.pc = IF sess[s].stream THEN "end" ELSE "done"])
    /\ Release(s)
    /\ UNCHANGED <<llm, orch, client>>

\* line 167
ChatEnd(s) ==
    /\ \/ At(s, "mcp", "end")
       \/ At(s, "mcp", "words") /\ sess[s].pending = <<>> /\ ~sess[s].detected
    /\ Set(s, [Yield(sess[s], EndEvent) EXCEPT !.pc = "done"])
    /\ Release(s)
    /\ UNCHANGED <<llm, orch, client>>

(***************************************************************************)
(* The "mcp" process around the sessions: ChatHandler.initialize.          *)
(***************************************************************************)
\* the process exists (a request is served by it) and its event loop is free
McpIdle == loop["mcp"] = 0 /\ \E s \in Sessions : sess[s].app = "mcp" /\ sess[s].pc # "idle"

\* ChatService.initialize loads the model
Initialize ==
    /\ McpIdle
    /\ llm = "none"
    /\ llm' = "loaded"
    /\ UNCHANGED <<sess, loop, orch, client>>

\* MCPClient.connect: the session is opened and the tools are listed, or an
\* exception leaves the client unconnected
Connect ==
    /\ McpIdle
    /\ ~client.connected
    /\ \/ client' = ClientUp
       \/ client' = [client EXCEPT !.connected = FALSE]
       \/ client' = [client EXCEPT !.connected = FALSE, !.session = TRUE]
    /\ UNCHANGED <<sess, loop, llm, orch>>

\* MCPClient.disconnect
Disconnect ==
    /\ McpIdle
    /\ client.connected \/ client.session
    /\ client' = [client EXCEPT !.connected = FALSE, !.session = FALSE]
    /\ UNCHANGED <<sess, loop, llm, orch>>

Local(s) ==
    \/ LocalStart(s) \/ LlamaGenerate(s) \/ LlamaPull(s) \/ LlamaRaise(s)
    \/ LlamaExtract(s) \/ LlamaWord(s) \/ LlamaToolCall(s) \/ LlamaNotice(s)
    \/ LlamaExecute(s) \/ LlamaToolReturn(s) \/ LlamaToolResult(s)
    \/ LlamaError(s) \/ LlamaEnd(s)

Mcp(s) ==
    \/ ApiStart(s) \/ ChatHandle(s) \/ ChatPull(s) \/ ChatRaise(s)
    \/ ChatExtract(s) \/ ChatWord(s) \/ ChatToolCall(s) \/ ChatNotice(s)
    \/ ChatDispatch(s) \/ McpReply(s) \/ ChatToolResult(s)
    \/ ChatError(s) \/ ChatEnd(s)

Next ==
    \/ \E s \in Sessions : Local(s) \/ Mcp(s)
    \/ Initialize
    \/ Connect
    \/ Disconnect

Spec == Init /\ [][Next]_vars

(***************************************************************************)
(* Concurrent requests.  Both processes are up (the lifespan of            *)
(* api_layer/main.py has run: model loaded, MCP client connected) and      *)
(* every session holds a request.                                          *)
(***************************************************************************)
ConcText(app) ==
    <<"ok", " ">> \o (IF app = "local"
                      THEN Invocation("weather", Location(<<"Atlantis">>))
                      ELSE Call("weather", <<"Atlantis">>))

ConcRequests ==
    { NewSession(app, e, <<"ok", " ">>, Suffix(ConcText(app), 3), <<>>) :
        app \in Apps, e \in BOOLEAN }

InitConc ==
    /\ sess \in [Sessions -> ConcRequests]
    /\ loop = [a \in Apps |-> 0]
    /\ llm = "loaded"
    /\ orch = FALSE
    /\ client = ClientUp

NextConc == \E s \in Sessions : Local(s) \/ Mcp(s)

SpecConc == InitConc /\ [][NextConc]_vars

(***************************************************************************)
(* The endpoint: one POST /rpc with any body, streaming or not.            *)
(***************************************************************************)
\* json_rpc_endpoint: the body is read and validated; a chat request
\* returns the streaming response or runs generate_chat_response; an
\* exception of the try block is answered by the error envelope, whose id
\* is read from body, a name that is unbound when request.json() raised
json_rpc_endpoint(s) ==
    LET r == sess[s]
        b == r.body
    IN /\ r.pc = "request"
       /\ CanRun(s)
       /\ IF b.kind = "invalid"
          THEN /\ Set(s, [r EXCEPT !.pc = "done",
                                   !.response = Unhandled("UnboundLocalError")])
               /\ Release(s)
          ELSE IF b.kind # "dict" \/ b.jsonrpc # "2.0"
          THEN /\ Set(s, [r EXCEPT !.pc = "done",
                                   !.response = ErrorEnvelope(IF b.kind = "dict"
                                                              THEN b.id ELSE "null")])
               /\ Release(s)
          ELSE IF b.method # "chat" \/ b.params # "dict"
          THEN /\ Set(s, [r EXCEPT !.pc = "done", !.response = ErrorEnvelope(b.id)])
               /\ Release(s)
          ELSE IF b.stream
          THEN /\ Set(s, [r EXCEPT !.pc = "new", !.stream = TRUE,
                                   !.response = StreamingResponse])
               /\ Release(s)
          ELSE /\ Set(s, [r EXCEPT !.pc = "ready", !.stream = FALSE])
               /\ Hold(s)
       /\ UNCHANGED <<llm, orch, client>>

\* the text the model generates for the request
RpcRequests(app) ==
    { NewSession(app, e, <<"ok", " ">>, c, <<>>) :
        e \in BOOLEAN,
        c \in {<<>>, IF app = "local" THEN WeatherParis ELSE Call("weather", Str(Paris))} }

\* the request as it arrives, before json_rpc_endpoint ran
Arrived(r, b) ==
    [r EXCEPT !.pc = "request", !.body = b, !.stream = FALSE, !.response = NoResponse]

InitRpc ==
    /\ \E app \in Apps : \E r \in RpcRequests(app) : \E b \in Bodies :
          sess = [s \in Sessions |-> IF s = 1 THEN Arrived(r, b) ELSE Idle]
    /\ loop = [a \in Apps |-> 0]
    /\ llm \in {"none", "loaded"}
    /\ orch = FALSE
    /\ client = ClientUp

NextRpc == \E s \in Sessions : json_rpc_endpoint(s) \/ Local(s) \/ Mcp(s)

SpecRpc == InitRpc /\ [][NextRpc]_vars

(***************************************************************************)
(* The extractors called on their own.  Session 1 holds a text and the     *)
(* extractor it is given to; every call appends what the extractor         *)
(* returned.  The text is a Python str: a call cannot change it.           *)
(***************************************************************************)
Extractors == {"chat_service", "mcp_server", "chat_handler"}

\* mutant of Extract: when the span at the first brace yields nothing, the
\* chat_service extractor scans the text after that brace again
ExtractRetries(impl, text) ==
    CASE impl = "chat_service" ->
            IF _extract_tool_call(text) = NoCall(text) /\ Find(text, "{") # 0
            THEN _extract_tool_call(Suffix(text, Find(text, "{") + 1))
            ELSE _extract_tool_call(text)
      [] impl = "mcp_server"   -> mcp_server_extract_tool_call(text)
      [] impl = "chat_handler" -> _extract_function_call(text)

Extract(impl, text) ==
    CASE impl = "chat_service" -> _extract_tool_call(text)
      [] impl = "mcp_server"   -> mcp_server_extract_tool_call(text)
      [] impl = "chat_handler" -> _extract_function_call(text)

\* an invocation with flat arguments
FlatInvocation == Invocation("weather", Str(Paris))

ExtractCandidates ==
    WellFormedInvocations \cup OtherObjects \cup Calls \cup {<<>>, FlatInvocation}

\* narrative with leading, trailing and repeated whitespace, and narrative
\* that touches the candidate
ExtractBefore == Before \cup { <<" ", "hi">> }

ExtractAfter(cand) ==
    { <<>>, <<"ok">>, <<" ", "\n", "ok", " ">>, <<" ", "and", " ">> \o cand,
      <<" ">> \o WeatherParis }

ExtractInput(impl, before, cand, after) ==
    [app |-> "extract", pc |-> "text", impl |-> impl,
     before |-> before, cand |-> cand, after |-> after,
     text |-> before \o cand \o after, results |-> <<>>]

ExtractInputsOf(cand) ==
    { ExtractInput(impl, b, cand, a) :
        impl \in Extractors, b \in ExtractBefore, a \in ExtractAfter(cand) }

ExtractInputs == UNION { ExtractInputsOf(cand) : cand \in ExtractCandidates }

InitExtract ==
    /\ \E r \in ExtractInputs : sess = [s \in Sessions |-> IF s = 1 THEN r ELSE Idle]
    /\ loop = [a \in Apps |-> 0]
    /\ llm = "none"
    /\ orch = FALSE
    /\ client = ClientInit

\* mutant of CallExtractor: the call keeps the remaining text as the text
CallExtractorConsumes(s) ==
    /\ sess[s].app = "extract"
    /\ Len(sess[s].results) < MaxCalls
    /\ Set(s, [sess[s] EXCEPT
                 !.results = Append(@, Extract(sess[s].impl, sess[s].text)),
                 !.text = Extract(sess[s].impl, sess[s].text).clean])
    /\ UNCHANGED <<loop, llm, orch, client>>

\* one call of the extractor on the text
CallExtractor(s) ==
    /\ sess[s].app = "extract"
    /\ Len(sess[s].results) < MaxCalls
    /\ Set(s, [sess[s] EXCEPT
                 !.results = Append(@, Extract(sess[s].impl, sess[s].text))])
    /\ UNCHANGED <<loop, llm, orch, client>>

NextExtract == \E s \in Sessions : CallExtractor(s)

SpecExtract == InitExtract /\ [][NextExtract]_vars

(***************************************************************************)
(* The dispatchers called on their own, as the test main() of              *)
(* mcp_client/chat_handler.py calls handle_tool_call: session 1 stands at  *)
(* the call of execute_tool (deployment "local"), at the call of           *)
(* MCPOrchestrator.handle_tool_call, or at the request sent to the MCP     *)
(* server, with a tool name and arguments of any kind.                     *)
(***************************************************************************)
DispatchNames ==
    { StrVal(<<"weather">>), StrVal(<<"forecast">>), StrVal(<<"Weather">>), StrVal(<<>>) }

DispatchLocations ==
    { Paris, <<"san", " ", "juan", ",", "pr">>, <<"Atlantis">>, <<>>,
      <<"Paris", ",", " ", "FRA">>, <<"Paris", ",", " ", "F">>,
      <<"Paris", ",", " ", "12">>, <<"Paris", ",">>,
      <<" ", "Paris", " ", ",", " ", "FR", " ">> }

\* arguments as a dict with a string location or without one
DictArgs ==
    { ObjVal(<<[k |-> <<"location">>, v |-> StrVal(loc)]>>) : loc \in DispatchLocations }
    \cup { ObjVal(<<>>), ObjVal(<<[k |-> <<"city">>, v |-> StrVal(<<"Paris">>)]>>) }

\* arguments of any JSON kind: also a string, and a location that is a dict
AnyArgs ==
    DictArgs \cup
    { StrVal(Paris),
      ObjVal(<<[k |-> <<"location">>,
                v |-> ObjVal(<<[k |-> <<"location">>, v |-> StrVal(Paris)]>>)]>>) }

\* the session at pc, about to call the dispatcher with name and args
AtDispatcher(app, pc, name, args) ==
    [NewSession(app, TRUE, <<>>, <<>>, <<>>) EXCEPT
        !.pc = pc,
        !.call = [tool_name |-> name, params |-> args, clean |-> <<>>],
        !.detected = TRUE]

Clients ==
    { ClientInit, ClientUp, [connected |-> FALSE, session |-> TRUE, available_tools |-> {}] }

InitDispatch ==
    /\ loop = [a \in Apps |-> 0]
    /\ llm = "loaded"
    /\ \/ /\ \E name \in DispatchNames, args \in AnyArgs :
               sess = [s \in Sessions |->
                          IF s = 1 THEN AtDispatcher("local", "exec", name, args) ELSE Idle]
          /\ orch = FALSE
          /\ client = ClientInit
       \/ /\ \E name \in DispatchNames, args \in DictArgs :
               sess = [s \in Sessions |->
                          IF s = 1 THEN AtDispatcher("mcp", "call", name, args) ELSE Idle]
          /\ orch \in BOOLEAN
          /\ client \in Clients
       \/ /\ \E name \in DispatchNames, args \in DictArgs :
               sess = [s \in Sessions |->
                          IF s = 1 THEN AtDispatcher("mcp", "rpc", name, args) ELSE Idle]
          /\ orch = TRUE
          /\ client = ClientUp

NextDispatch ==
    \E s \in Sessions :
        LlamaExecute(s) \/ LlamaToolReturn(s) \/ ChatDispatch(s) \/ McpReply(s)

SpecDispatch == InitDispatch /\ [][NextDispatch]_vars

(***************************************************************************)
(* MCPClient alone: a caller makes call_tool requests while the client is  *)
(* connected, fails to connect and is disconnected at any time.            *)
(***************************************************************************)
ClientArgs == { ObjVal(<<[k |-> <<"location">>, v |-> StrVal(Paris)]>>), ObjVal(<<>>) }

\* MCPClient.connect on a client in any state: a connect that fails before
\* the session is made leaves the old one, a later failure the new one
ClientConnect ==
    /\ McpIdle
    /\ \/ client' = ClientUp
       \/ client' = [client EXCEPT !.connected = FALSE]
       \/ client' = [client EXCEPT !.connected = FALSE, !.session = TRUE]
    /\ UNCHANGED <<sess, loop, llm, orch>>

\* await client.call_tool(name, arguments)
ClientCall(s) ==
    /\ At(s, "mcp", "client")
    /\ LET r == call_tool(sess[s].call.tool_name)
       IN IF r = NoResult
          THEN /\ Set(s, [sess[s] EXCEPT !.pc = "rpc", !.dispatches = @ + 1])
               /\ Release(s)
          ELSE /\ Set(s, [sess[s] EXCEPT !.pc = "result", !.result = r,
                                         !.dispatches = @ + 1])
               /\ Hold(s)
    /\ UNCHANGED <<llm, orch, client>>

\* the caller has the result and makes its next call
ClientNext(s) ==
    /\ At(s, "mcp", "result")
    /\ sess[s].dispatches < MaxCalls
    /\ \E name \in DispatchNames : \E args \in ClientArgs :
          Set(s, [sess[s] EXCEPT
                    !.pc = "client",
                    !.call = [tool_name |-> name, params |-> args, clean |-> <<>>],
                    !.result = NoResult,
                    !.lookups = <<>>])
    /\ Release(s)
    /\ UNCHANGED <<llm, orch, client>>

InitClient ==
    /\ \E name \in DispatchNames : \E args \in ClientArgs :
          sess = [s \in Sessions |->
                     IF s = 1 THEN AtDispatcher("mcp", "client", name, args) ELSE Idle]
    /\ loop = [a \in Apps |-> 0]
    /\ llm = "loaded"
    /\ orch = TRUE
    /\ client = ClientInit

NextClient ==
    \/ ClientConnect
    \/ Disconnect
    \/ \E s \in Sessions : ClientCall(s) \/ McpReply(s) \/ ClientNext(s)

SpecClient == InitClient /\ [][NextClient]_vars

(***************************************************************************)
(* Properties.                                                             *)
(***************************************************************************)
Done(s) == sess[s].pc = "done"

CountType(r, type) == Cardinality({i \in DOMAIN r.events : r.events[i].type = type})

\* the token events of a run of words: one per word, a space after each
WordTokens(words) == [i \in 1..Len(words) |-> TokenEvent(words[i] \o <<" ">>)]

\* narrative that holds no candidate
PlainAfter == { <<>>, <<" ", "ok">> }

Locations ==
    { Paris, <<"san", " ", "juan", ",", "pr">>, <<"Atlantis">>,
      <<"Paris", ",", " ", "FRA">> }

\* C1: with tools enabled, narrative plus one invocation
\* {"tool_name": "weather", "parameters": {"location": ...}} gives, in order,
\* one token event per narrative word, one tool_call with the invocation's
\* name and parameters, one tool_result, one end.
C1_EventOrder ==
    \A s \in Sessions : \A loc \in Locations :
        LET r == sess[s]
        IN (/\ r.app = "local" /\ Done(s) /\ r.tools_enabled
            /\ r.cand = Invocation("weather", Location(loc))
            /\ r.after \in PlainAfter
            /\ r.extractions = 1)
           => \E result \in {r.result} :
                r.events =
                    WordTokens(Split(r.before \o r.after))
                    \o <<ToolCallEvent(StrVal(<<"weather">>),
                                       ObjVal(<<[k |-> <<"location">>,
                                                 v |-> StrVal(loc)]>>)),
                         ToolResultEvent(result), EndEvent>>

NoticeOf(app) == IF app = "local" THEN LlamaNoticeText ELSE ChatNoticeText

\* C2: with tools disabled, a session in which an invocation is detected
\* emits no tool_call and no tool_result and never enters the dispatcher; its
\* events are the narrative's word tokens, the fixed notice as one token,
\* then end.
C2_DisabledGate ==
    \A s \in Sessions :
        LET r == sess[s]
        IN ~r.tools_enabled =>
             /\ CountType(r, "tool_call") = 0
             /\ CountType(r, "tool_result") = 0
             /\ r.dispatches = 0
             /\ r.lookups = <<>>
             /\ (Done(s) /\ r.detected) =>
                    r.events = WordTokens(Split(r.call.clean))
                               \o <<TokenEvent(NoticeOf(r.app)), EndEvent>>

C2_Witness ==
    \E s \in Sessions :
        /\ Done(s) /\ sess[s].detected /\ ~sess[s].tools_enabled
        /\ sess[s].before # <<>>
        /\ Len(sess[s].events) = 4

\* the chunks only an invocation object holds
InvocationChunks == {"{", "}", "tool_name", "parameters"}

\* C3: when the generated text holds a well-formed invocation object
\* (balanced, parseable, carrying a tool_name), no token event holds any
\* part of the invocation's text.
C3_NoLeak ==
    \A s \in Sessions :
        LET r == sess[s]
        IN (/\ r.app = "local"
            /\ r.cand \in WellFormedInvocations
            /\ r.after \in PlainAfter)
           => \A i \in DOMAIN r.events :
                r.events[i].type = "token" =>
                    \A j \in DOMAIN r.events[i].content :
                        r.events[i].content[j] \notin InvocationChunks

Terminal(e) == e.type \in {"end", "error"}

\* C4: a session of ChatService.stream_chat emits exactly one terminal event
\* (end, or an error in its place), and it is the session's last event.
C4_OneTerminal ==
    \A s \in Sessions :
        LET r == sess[s]
        IN r.app = "mcp" =>
             /\ Cardinality({i \in DOMAIN r.events : Terminal(r.events[i])}) <= 1
             /\ \A i \in DOMAIN r.events : Terminal(r.events[i]) => i = Len(r.events)
             /\ Done(s) => r.events # <<>> /\ Terminal(r.events[Len(r.events)])

\* C5: when pulling tokens raises, stream_chat emits an event of type error
\* that carries a message, no token event in its place, and does not
\* generate again.
C5_ErrorEvent ==
    \A s \in Sessions :
        LET r == sess[s]
        IN (Done(s) /\ r.exc = "RuntimeError") =>
             /\ \E i \in DOMAIN r.events :
                    r.events[i].type = "error" /\ r.events[i].content # <<>>
             /\ CountType(r, "token") = 0
             /\ r.generations = 1

\* C6: a dispatcher call that ends in anything but a payload never aborts
\* the session: the error is a tool_result event, no error event is emitted,
\* the session ends with end, and the framer sends it as a content frame
\* "Error: <message>" before the done frame.
C6_DispatchErrorSurfaces ==
    \A s \in Sessions :
        LET r == sess[s]
        IN (/\ r.app = "local" /\ Done(s) /\ r.dispatches = 1
            /\ r.result.kind # "payload")
           => /\ \E i \in DOMAIN r.events :
                    /\ r.events[i].type = "tool_result"
                    /\ r.events[i].result.kind = "error"
                    /\ \E j, k \in DOMAIN r.frames :
                          /\ j < k
                          /\ r.frames[j] =
                                ContentFrame(<<"\n", "\n", "Error: ">>
                                             \o r.events[i].result.error)
                          /\ r.frames[k].type = "done"
              /\ CountType(r, "error") = 0
              /\ r.events[Len(r.events)] = EndEvent

\* C7: execute_tool returns a result and never raises, whatever the tool
\* name, the parameters and the provider's answers.
C7_NeverRaises ==
    \A s \in Sessions :
        sess[s].app = "local" =>
            sess[s].exc \notin {"KeyError", "AttributeError"}

\* C8: a session started with tools_enabled = true is never answered with
\* the gate-disabled error of MCPOrchestrator.handle_tool_call.
C8_OwnGate ==
    \A s \in Sessions :
        (sess[s].app = "mcp" /\ sess[s].tools_enabled)
            => sess[s].result # ErrorResult(<<"Tools are disabled">>)

\* C9: at most one generation call on a model instance is in progress: while
\* a session pulls tokens, no other session of its process does, and the
\* event loop is not given to another one.
C9_OneGeneration ==
    \A s \in Sessions :
        sess[s].pc = "gen" =>
            /\ loop[sess[s].app] = s
            /\ \A t \in Sessions \ {s} :
                  sess[t].app = sess[s].app => sess[t].pc # "gen"

C9_Witness ==
    \E s, t \in Sessions :
        /\ s # t
        /\ sess[s].app = sess[t].app
        /\ sess[s].pc = "gen" /\ sess[s].response_text # <<>> /\ ~Exhausted(s)
        /\ sess[t].pc = "ready"

\* C10: a session honors at most one invocation: at most one tool_call
\* event, at most one call of the dispatcher, one run of the extractor.
C10_AtMostOne ==
    \A s \in Sessions :
        LET r == sess[s]
        IN r.app = "local" =>
             /\ CountType(r, "tool_call") <= 1
             /\ r.dispatches <= 1
             /\ r.extractions <= 1

C10_Witness ==
    \E s \in Sessions :
        /\ sess[s].app = "local" /\ Done(s)
        /\ sess[s].cand = WeatherParis
        /\ sess[s].after = <<" ">> \o WeatherParis
        /\ CountType(sess[s], "tool_call") = 1
        /\ sess[s].dispatches = 1
        /\ sess[s].extractions = 1

\* the contents of the token events of r, in emission order
TokenContents(r) ==
    LET Sel[i \in 0..Len(r.events)] ==
            IF i = 0 THEN <<>>
            ELSE IF r.events[i].type = "token"
                 THEN Append(Sel[i - 1], r.events[i].content)
                 ELSE Sel[i - 1]
    IN Sel[Len(r.events)]

\* the generated text of r with the span of its invocation removed
NarrativeOf(r) ==
    IF r.cand \in WellFormedInvocations THEN r.before \o r.after
    ELSE IF Find(r.cand, "{") = 0 /\ r.after = <<" ">> \o WeatherParis
         THEN r.before \o r.cand \o <<" ">>
    ELSE r.source

\* C11: the token events of a finished LlamaClient.stream_chat session whose
\* text was generated in full, the notice of a disabled tool aside, are the words of the narrative (the
\* generated text without the invocation span), one event per word in
\* order, each word followed by a single space.
C11_TokensAreNarrative ==
    \A s \in Sessions :
        LET r == sess[s]
        IN (r.app = "local" /\ Done(s) /\ r.extractions = 1) =>
              SelectSeq(TokenContents(r), LAMBDA c : c # LlamaNoticeText)
                  = [i \in 1..Len(Split(NarrativeOf(r))) |->
                        Split(NarrativeOf(r))[i] \o <<" ">>]

\* C12: when the token source is exhausted and no invocation is detected,
\* the session's events are one token per whitespace-delimited word of the
\* whole generated text, in order, then end: no tool_call, no tool_result,
\* no notice, and the dispatcher is not called.
C12_NoDetectionFlush ==
    \A s \in Sessions :
        LET r == sess[s]
        IN (Done(s) /\ r.extractions = 1 /\ ~r.detected) =>
              /\ r.events = WordTokens(Split(r.source)) \o <<EndEvent>>
              /\ r.dispatches = 0
              /\ r.lookups = <<>>

C12_Witness ==
    \E s \in Sessions :
        /\ Done(s) /\ sess[s].extractions = 1 /\ ~sess[s].detected
        /\ sess[s].cand \in OtherObjects
        /\ sess[s].before # <<>>
        /\ Len(sess[s].events) >= 4

\* whitespace runs collapsed to one space, trimmed at both ends
Normalize(text) == Strip(CollapseWs(text))

\* text without its span i..j
WithoutSpan(text, i, j) == SubSeq(text, 1, i - 1) \o Suffix(text, j + 1)

\* C13: when either _extract_tool_call returns an invocation, its remaining
\* text is the input minus one span, the matched invocation object,
\* whitespace-collapsed and trimmed; everything else, a second copy of the
\* invocation included, stays.
C13_RemovedOnce ==
    \A s \in Sessions :
        LET r == sess[s]
        IN (r.app = "extract" /\ r.impl \in {"chat_service", "mcp_server"}) =>
              \A n \in DOMAIN r.results :
                  r.results[n].tool_name # NoneVal =>
                      \E i, j \in DOMAIN r.text :
                          /\ i < j /\ r.text[i] = "{" /\ r.text[j] = "}"
                          /\ JsonLoads(SubSeq(r.text, i, j)).ok
                          /\ r.results[n].clean = Normalize(WithoutSpan(r.text, i, j))

\* the dict {"location": loc}
LocationVal(loc) == ObjVal(<<[k |-> <<"location">>, v |-> StrVal(loc)]>>)

\* the arguments of NestedInvocation
NestedVal ==
    ObjVal(<<[k |-> <<"location">>, v |-> StrVal(Paris)],
             [k |-> <<"options">>,
              v |-> ObjVal(<<[k |-> <<"units">>, v |-> StrVal(<<"imperial">>)]>>)]>>)

\* what the extractor is to return for narrative around an invocation
Extracted(name, params, r) ==
    [tool_name |-> StrVal(<<name>>), params |-> params,
     clean |-> Normalize(r.before \o r.after)]

\* C14: for a text whose invocation has braces nested in its arguments,
\* _extract_tool_call of chat_service closes the candidate where the depth
\* returns to zero: it returns the invocation's name and its whole
\* arguments, and removes the outer span.
C14_OuterSpan ==
    \A s \in Sessions :
        LET r == sess[s]
        IN (r.app = "extract" /\ r.impl = "chat_service") =>
              \A n \in DOMAIN r.results :
                  /\ \A loc \in Locations :
                        r.cand = Invocation("weather", Location(loc)) =>
                            r.results[n] = Extracted("weather", LocationVal(loc), r)
                  /\ r.cand = NestedInvocation =>
                        r.results[n] = Extracted("weather", NestedVal, r)
                  /\ r.cand = Invocation("forecast", Location(Paris)) =>
                        r.results[n] = Extracted("forecast", LocationVal(Paris), r)

C14_Witness ==
    \E s \in Sessions :
        /\ sess[s].app = "extract" /\ sess[s].impl = "chat_service"
        /\ sess[s].cand = NestedInvocation
        /\ sess[s].before # <<>> /\ sess[s].after = <<"ok">>
        /\ Len(sess[s].results) = 1
        /\ sess[s].results[1].params = NestedVal

\* invocations and the fields they were written with
Originals ==
    { [text |-> Invocation("weather", Location(loc)), name |-> "weather",
       params |-> LocationVal(loc)] : loc \in Locations }
    \cup
    { [text |-> NestedInvocation, name |-> "weather", params |-> NestedVal],
      [text |-> FlatInvocation, name |-> "weather", params |-> StrVal(Paris)],
      [text |-> Invocation("weather", <<"{", "}">>), name |-> "weather",
       params |-> ObjVal(<<>>)],
      [text |-> Invocation("forecast", Location(Paris)), name |-> "forecast",
       params |-> LocationVal(Paris)] }

\* C15 as stated: extracting from before + invocation + after gives
\* before + " " + after, whitespace-collapsed and trimmed, and the
\* invocation's name and parameters.
C15_RoundTripAsStated ==
    \A s \in Sessions :
        LET r == sess[s]
        IN (r.app = "extract" /\ r.impl = "chat_service") =>
              \A n \in DOMAIN r.results : \A o \in Originals :
                  r.cand = o.text =>
                      r.results[n] =
                          [tool_name |-> StrVal(<<o.name>>), params |-> o.params,
                           clean |-> Normalize(r.before \o <<" ">> \o r.after)]

\* C15, amended: extracting from before + invocation + after gives
\* before + after (the span taken out, nothing put in its place),
\* whitespace-collapsed and trimmed, and the invocation's name and
\* parameters.
C15_RoundTrip ==
    \A s \in Sessions :
        LET r == sess[s]
        IN (r.app = "extract" /\ r.impl = "chat_service") =>
              \A n \in DOMAIN r.results : \A o \in Originals :
                  r.cand = o.text =>
                      r.results[n] =
                          [tool_name |-> StrVal(<<o.name>>), params |-> o.params,
                           clean |-> Normalize(r.before \o r.after)]

C15_Witness ==
    \E s \in Sessions :
        /\ sess[s].app = "extract" /\ sess[s].impl = "chat_service"
        /\ sess[s].cand = WeatherParis
        /\ sess[s].before = <<" ", "hi">> /\ sess[s].after = <<"ok">>
        /\ Len(sess[s].results) = 1
        /\ sess[s].results[1].clean = <<"hi", "ok">>

\* the character that opens an invocation in the syntax an extractor reads
Marker(impl) == IF impl = "chat_handler" THEN "(" ELSE "{"

\* C16: for a text without the opening marker of an invocation, the
\* extractor returns no invocation and the text itself, untrimmed and with
\* its whitespace as it was.
C16_Identity ==
    \A s \in Sessions :
        LET r == sess[s]
        IN (r.app = "extract" /\ Find(r.text, Marker(r.impl)) = 0) =>
              \A n \in DOMAIN r.results :
                  r.results[n] =
                      [tool_name |-> NoneVal, params |-> NoneVal, clean |-> r.text]

C16_Witness ==
    \E s \in Sessions :
        /\ sess[s].app = "extract" /\ sess[s].impl = "chat_handler"
        /\ sess[s].text = <<" ", "hi", " ", "\n", "ok", " ">>
        /\ Len(sess[s].results) = 1
        /\ sess[s].results[1].clean = sess[s].text

C18_GateFirst ==
    \A s \in Sessions :
        LET r == sess[s]
        IN (r.app = "mcp" /\ r.dispatches = 1 /\ ~orch) =>
              /\ r.pc = "result"
              /\ r.result = ErrorResult(<<"Tools are disabled">>)
              /\ r.lookups = <<>>

C18_Witness ==
    \E s \in Sessions :
        /\ sess[s].app = "mcp" /\ sess[s].dispatches = 1 /\ ~orch
        /\ ~client.connected
        /\ sess[s].call.tool_name = StrVal(<<"forecast">>)
        /\ sess[s].result = ErrorResult(<<"Tools are disabled">>)

\* the dispatcher of r has answered
Answered(r) == r.pc \in {"result", "except"}

\* C19: a dispatcher called with a name other than "weather" returns the
\* unknown-tool error with that name (execute_tool and the MCP server:
\* "Unknown tool: <name>"; MCPClient.call_tool behind an open gate:
\* "Tool '<name>' not available"), without validating the arguments and
\* without any provider call.
C19_UnknownTool ==
    \A s \in Sessions :
        LET r    == sess[s]
            name == r.call.tool_name
        IN (Answered(r) /\ name # StrVal(<<"weather">>)) =>
              /\ r.pc = "result"
              /\ r.lookups = <<>>
              /\ r.app = "local" =>
                    r.result = ErrorResult(<<"Unknown tool: ">> \o TextOf(name))
              /\ (r.app = "mcp" /\ r.dispatches = 1 /\ orch /\ client = ClientUp) =>
                    r.result = ErrorResult(<<"Tool '">> \o TextOf(name)
                                           \o <<"' not available">>)
              /\ (r.app = "mcp" /\ r.dispatches = 0) =>
                    r.result \in { ErrorResult(<<"Unknown tool: ">> \o TextOf(name)),
                                   ErrorResult(<<"Tool call failed: ">>) }

C19_Witness ==
    \E s \in Sessions :
        /\ sess[s].app = "local" /\ sess[s].pc = "result"
        /\ sess[s].call.tool_name = StrVal(<<"forecast">>)
        /\ sess[s].call.params = StrVal(Paris)
        /\ sess[s].result = ErrorResult(<<"Unknown tool: ", "forecast">>)

\* two-letter region codes
RegionCodes == { <<"FR">>, <<"PR">>, <<"fr">>, <<"pr">> }

\* a location without a comma, or whose part after the first comma is no
\* two-letter region code
Malformed(loc) == Find(loc, ",") = 0 \/ CodeOf(loc) \notin RegionCodes

\* C20: for a location that lacks a comma or whose part after the first
\* comma is not a two-letter region code, the weather tool (execute_tool,
\* and get_weather behind the MCP server) returns an error and makes no
\* provider call.
C20_ValidatedBeforeLookup ==
    \A s \in Sessions : \A loc \in DispatchLocations :
        LET r == sess[s]
        IN (/\ Answered(r)
            /\ r.call.tool_name = StrVal(<<"weather">>)
            /\ r.call.params = LocationVal(loc)
            /\ Malformed(loc)
            /\ r.app = "local" \/ r.dispatches = 0)
           => /\ r.pc = "result"
              /\ r.result.kind = "error"
              /\ r.lookups = <<>>

\* locations of the form "city, cc" among DispatchLocations
CityCodeLocations ==
    { Paris, <<"san", " ", "juan", ",", "pr">>,
      <<" ", "Paris", " ", ",", " ", "FR", " ">> }

\* the trimmed city, ", " and the upper-cased code, written out
Labelled(loc) ==
    IF loc = <<"san", " ", "juan", ",", "pr">>
    THEN <<"san", " ", "juan", ",", " ", "PR">>
    ELSE <<"Paris", ",", " ", "FR">>

LookupOrders == { <<>>, <<"geo">>, <<"geo", "wx">> }

\* C21: the two provider lookups of execute_tool are sequential and
\* conditional: the current-conditions call is made only after the geocode
\* call returned a non-empty result, at most one of each per dispatch; on
\* an empty geocode result the dispatcher returns the error
\* "Location not found: <city>, <CC>" (city trimmed, code upper-cased) and
\* the current-conditions call is never made.
C21_SequentialLookups ==
    \A s \in Sessions :
        LET r == sess[s]
        IN /\ r.lookups \in LookupOrders
           /\ (r.app = "local" /\ r.pc = "lookup") =>
                \A geo \in GeoResponses : \A wx \in WxResponses :
                    LET x == execute_tool(r.call.tool_name, r.call.params, geo, wx)
                    IN /\ x.calls \in LookupOrders
                       /\ x.calls = <<"geo", "wx">> =>
                            (geo.status = "json" /\ geo.kind = "list" /\ geo.items # <<>>)
                       /\ \A loc \in CityCodeLocations :
                            (/\ r.call.tool_name = StrVal(<<"weather">>)
                             /\ r.call.params = LocationVal(loc)
                             /\ geo = GeoList(<<>>))
                            => x = Returns(ErrorResult(<<"Location not found: ">>
                                                       \o Labelled(loc)),
                                           <<"geo">>)
           /\ (/\ r.app = "local"
               /\ r.pc = "result"
               /\ r.result.kind = "error"
               /\ r.result.error[1] = "Location not found: ")
              => r.lookups = <<"geo">>

C21_Witness ==
    \E s \in Sessions :
        /\ sess[s].app = "local"
        /\ sess[s].pc = "result"
        /\ sess[s].dispatches = 1
        /\ sess[s].result =
              ErrorResult(<<"Location not found: ", "san", " ", "juan", ",", " ", "PR">>)
        /\ sess[s].lookups = <<"geo">>

\* the payload execute_tool is to return for loc when the provider reports
\* temp at time dt with the shift tz
ExpectedPayload(loc, temp, minutes) ==
    [location    |-> Labelled(loc),
     local_time  |-> minutes,
     temperature |-> temp,
     feels_like  |-> temp + 4,
     humidity    |-> 77,
     wind_speed  |-> 12,
     description |-> "sunny"]

\* C22: for a location "<city>, <cc>" and well-formed provider responses,
\* execute_tool returns a payload with the fields location, local_time,
\* temperature, feels_like, humidity, wind_speed and description and no
\* error, where location is the trimmed city, ", " and the upper-cased code
\* and the numeric fields are the provider's values unchanged; a result
\* never carries both an error and payload fields.
C22_Payload ==
    \A s \in Sessions :
        LET r == sess[s]
        IN /\ (r.app = "local" /\ r.pc = "lookup"
               /\ r.call.tool_name = StrVal(<<"weather">>)) =>
                \A loc \in CityCodeLocations : \A temp \in {86, 41} :
                    r.call.params = LocationVal(loc) =>
                       /\ execute_tool(r.call.tool_name, r.call.params,
                                       GeoList(<<Place({"lat", "lon"})>>), WxBody(temp))
                            = Returns(PayloadResult(ExpectedPayload(loc, temp, 61)),
                                      <<"geo", "wx">>)
                       /\ execute_tool(r.call.tool_name, r.call.params,
                                       GeoList(<<Place({"lat", "lon"})>>),
                                       [WxBody(temp) EXCEPT !.keys = @ \ {"timezone"}])
                            = Returns(PayloadResult(ExpectedPayload(loc, temp, 121)),
                                      <<"geo", "wx">>)
           /\ r.app = "local" =>
                /\ r.result.kind = "error" => r.result.payload = NoPayload
                /\ r.result.kind = "payload" => r.result.error = <<>>
                /\ r.result.kind \in {"none", "error", "payload"}

C22_Witness ==
    \E s \in Sessions :
        /\ sess[s].app = "local"
        /\ sess[s].pc = "result"
        /\ sess[s].dispatches = 1
        /\ sess[s].call.params = LocationVal(<<"san", " ", "juan", ",", "pr">>)
        /\ sess[s].result =
              PayloadResult(ExpectedPayload(<<"san", " ", "juan", ",", "pr">>, 41, 61))

\* the frame type that relays an event of the given type
FrameTypeOf(type) ==
    CASE type = "token"       -> "content"
      [] type = "tool_call"   -> "tool_calls"
      [] type = "tool_result" -> "content"
      [] type = "error"       -> "error"
      [] type = "end"         -> "done"

\* C23: in streaming mode the framer emits exactly one frame for each event
\* the orchestrator yields (token, tool_call, tool_result, error, end), in
\* the order of the events, none dropped, merged or reordered: after the
\* start frame, the i-th frame relays the i-th event.
C23_FramePerEvent ==
    \A s \in Sessions :
        LET r == sess[s]
        IN r.frames # <<>> =>
              /\ Len(r.frames) = Len(r.events) + 1
              /\ \A i \in 1..Len(r.events) :
                    r.frames[i + 1].type = FrameTypeOf(r.events[i].type)

FramesOfType(r, type) == {i \in DOMAIN r.frames : r.frames[i].type = type}

\* C24: every streaming response of generate_chat_stream (api_layer/main.py)
\* begins with exactly one start frame and ends with exactly one done
\* frame, after which no frame is sent, whatever events the orchestrator
\* produced, sessions that report an error included.
C24_StartAndDone ==
    \A s \in Sessions :
        LET r == sess[s]
        IN /\ (r.app = "mcp" /\ r.frames # <<>>) => FramesOfType(r, "start") = {1}
           /\ (r.app = "mcp" /\ r.pc = "done") => FramesOfType(r, "done") = {Len(r.frames)}
           /\ r.app = "mcp" => FramesOfType(r, "done") \subseteq {Len(r.frames)}

\* the text a framer derives from a tool result
ResultText(app, result) ==
    IF result.kind = "error" THEN <<"\n", "\n", "Error: ">> \o result.error
    ELSE IF app = "local" THEN LocalFormat(result).content
    ELSE ApiFormat(result).content

RECURSIVE ContentOf(_, _)
\* the texts of the token and tool_result events, joined in their order
ContentOf(app, events) ==
    IF events = <<>> THEN <<>>
    ELSE (CASE Head(events).type = "token" -> Head(events).content
            [] Head(events).type = "tool_result" -> ResultText(app, Head(events).result)
            [] OTHER -> <<>>)
         \o ContentOf(app, Tail(events))

RECURSIVE InvocationsOf(_)
\* the invocations of the tool_call events, in their order
InvocationsOf(events) ==
    IF events = <<>> THEN <<>>
    ELSE (IF Head(events).type = "tool_call"
          THEN <<[name |-> Head(events).tool_name,
                  arguments |-> Head(events).parameters]>>
          ELSE <<>>)
         \o InvocationsOf(Tail(events))

\* a non-streaming request whose event sequence reached its end event
Collected(r) ==
    /\ ~r.stream
    /\ r.pc = "done"
    /\ r.events # <<>>
    /\ r.events[Len(r.events)].type = "end"

\* C25: in non-streaming mode generate_chat_response drives the events to
\* the end event and returns one result whose content is the concatenation,
\* in emission order, of every token's text and of the text derived from
\* every tool_result, and whose tool_calls lists every invocation that
\* occurred (name and arguments), in order.
C25_CollectedResult ==
    \A s \in Sessions :
        LET r == sess[s]
        IN Collected(r) =>
              /\ r.response.kind = "result"
              /\ r.response.content = ContentOf(r.app, r.events)
              /\ r.response.tool_calls = InvocationsOf(r.events)

\* a body that is no valid JSON, no JSON object, has a jsonrpc other than
\* "2.0", or names a method other than "chat"
Rejectable(b) == b.kind # "dict" \/ b.jsonrpc # "2.0" \/ b.method # "chat"

\* C26: for every request body that is malformed (not valid JSON, not a
\* JSON object, jsonrpc different from "2.0") or names a method other than
\* "chat", json_rpc_endpoint returns a JSON-RPC error response with code
\* -32603 and the request's id (null when none is recoverable), and neither
\* the chat handler nor the token source is called.
C26_Rejected ==
    \A s \in Sessions :
        LET r == sess[s]
        IN (r.pc \notin {"idle", "request"} /\ Rejectable(r.body)) =>
              /\ r.pc = "done"
              /\ r.response.kind = "error"
              /\ r.response.code = -32603
              /\ r.response.id = (IF r.body.kind = "dict" THEN r.body.id ELSE "null")
              /\ r.generations = 0
              /\ r.events = <<>>

\* C27: in non-streaming mode a generation error (the model fails at run
\* time, or is not initialized) is reported by the api_layer endpoint as an
\* error envelope, a response with an error member and no result member,
\* never as a result envelope.
C27_ErrorEnvelope ==
    \A s \in Sessions :
        LET r == sess[s]
        IN (/\ r.app = "mcp"
            /\ ~r.stream
            /\ r.pc = "done"
            /\ \E i \in DOMAIN r.events : r.events[i].type = "error")
           => r.response.kind = "error"

\* weather(location="Paris, FR")
NamedCall == Call("weather", <<"location", "=">> \o Str(Paris))

\* C28: for a call-syntax invocation weather(location="<City>, <CC>")
\* embedded in generated text, ChatService._extract_function_call returns
\* the name "weather" and the arguments of the original mapping: location
\* is the full string "<City>, <CC>", comma and region code included.
C28_NamedLocation ==
    \A s \in Sessions :
        LET r == sess[s]
        IN (/\ r.app = "extract"
            /\ r.impl = "chat_handler"
            /\ r.cand = NamedCall
            /\ r.before = <<>> \/ IsSpace(r.before[Len(r.before)])) =>
              \A n \in DOMAIN r.results :
                  /\ r.results[n].tool_name = StrVal(<<"weather">>)
                  /\ r.results[n].params = LocationVal(Paris)

\* C29: in ChatService.stream_chat with tools enabled, a detected
\* invocation whose name is not the registered tool is surfaced as a
\* tool_result event carrying an unknown-tool error; the fixed
\* tools-unavailable notice is emitted only when the session's tool gate is
\* disabled.
C29_UnknownToolSurfaced ==
    \A s \in Sessions :
        LET r == sess[s]
        IN r.app = "mcp" =>
              /\ (/\ r.pc = "done"
                  /\ r.tools_enabled
                  /\ r.detected
                  /\ r.call.tool_name # StrVal(<<"weather">>)
                  /\ CountType(r, "error") = 0)
                 => \E i \in DOMAIN r.events :
                        /\ r.events[i].type = "tool_result"
                        /\ r.events[i].result.kind = "error"
              /\ (\E i \in DOMAIN r.events : r.events[i] = TokenEvent(ChatNoticeText))
                 => ~r.tools_enabled

\* C30: the regex-based _extract_tool_call of mcp_server/llama_client.py
\* detects the invocation shape {"tool_name": ..., "parameters": {...}}:
\* for every text embedding such an object with a non-empty parameters
\* mapping it returns the tool name, the parameters and a remaining text
\* without the object.
C30_RegexDetects ==
    \A s \in Sessions :
        LET r == sess[s]
        IN (r.app = "extract" /\ r.impl = "mcp_server") =>
              \A n \in DOMAIN r.results : \A o \in Originals :
                  (r.cand = o.text /\ o.params.kind = "obj" /\ o.params.m # <<>>) =>
                      /\ r.results[n].tool_name = StrVal(<<o.name>>)
                      /\ r.results[n].params = o.params
                      /\ Find(r.results[n].clean, "tool_name") = 0

\* balanced brace spans that are no JSON text
Unparseable == { <<"{", "maybe", "}">>, Obj1(Member("tool_name", Str(<<"}">>))) }

\* C31: _extract_tool_call (chat_service/llama_client.py) considers only the
\* span that starts at the first opening brace of the text: if that
\* balanced span does not parse, the result is no invocation and the text
\* unchanged, even when a well-formed invocation object follows later in
\* the text.
C31_FirstCandidateOnly ==
    \A s \in Sessions :
        LET r == sess[s]
        IN (/\ r.app = "extract"
            /\ r.impl = "chat_service"
            /\ r.cand \in Unparseable
            /\ Find(r.before, "{") = 0) =>
              \A n \in DOMAIN r.results :
                  r.results[n] =
                      [tool_name |-> NoneVal, params |-> NoneVal,
                       clean |-> r.before \o r.cand \o r.after]

C31_Witness ==
    \E s \in Sessions :
        /\ sess[s].app = "extract" /\ sess[s].impl = "chat_service"
        /\ sess[s].cand = <<"{", "maybe", "}">>
        /\ sess[s].after = <<" ">> \o WeatherParis
        /\ Len(sess[s].results) = 1
        /\ sess[s].results[1].tool_name = NoneVal
        /\ sess[s].results[1].clean = sess[s].text

\* an opening brace that is never closed: {"tool_name":"weather"
Unterminated == <<"{">> \o Member("tool_name", Str(<<"weather">>))

\* C32: when the first opening brace of the accumulated text is never
\* closed, _extract_tool_call returns no invocation and the text unchanged,
\* and stream_chat emits the whole text, the unterminated candidate
\* included, as ordinary token events followed by end, with no tool or
\* error event.
C32_UnterminatedIsText ==
    \A s \in Sessions :
        LET r == sess[s]
        IN (r.app = "local" /\ r.cand = Unterminated /\ r.extractions = 1) =>
              /\ r.call = [tool_name |-> NoneVal, params |-> NoneVal,
                           clean |-> r.before \o r.cand \o r.after]
              /\ ~r.detected
              /\ r.dispatches = 0
              /\ Done(s) =>
                    /\ r.events = WordTokens(Split(r.source)) \o <<EndEvent>>
                    /\ \E i \in DOMAIN r.events :
                           /\ r.events[i].type = "token"
                           /\ Head(r.events[i].content) = "{"

C32_Witness ==
    \E s \in Sessions :
        /\ Done(s)
        /\ sess[s].app = "local" /\ sess[s].tools_enabled
        /\ sess[s].cand = Unterminated
        /\ sess[s].after = <<" ">> \o WeatherParis
        /\ sess[s].extractions = 1
        /\ sess[s].call.clean = sess[s].source
        /\ CountType(sess[s], "token") = Len(sess[s].events) - 1
        /\ sess[s].events[Len(sess[s].events)] = EndEvent

\* the session waits for the external lookups of its dispatch
InLookups(r) ==
    \/ r.app = "local" /\ r.pc = "lookup"
    \/ r.app = "mcp" /\ r.pc = "rpc"

C34_PostAccumulationAsStated ==
    \A s \in Sessions :
        LET r == sess[s]
        IN r.events # <<>> =>
              /\ r.response_text = r.source
              /\ r.extractions = 1
              /\ r.pc # "gen"
              /\ r.generations <= 1

\* the generation of r ran to the end of the model's output
Generated(r) == r.generations = 1 /\ r.exc # "RuntimeError"

\* C34, amended: in every session whose generation runs to its end,
\* stream_chat emits its first event only after the token source is
\* exhausted and the extractor is invoked exactly once, on the full
\* accumulated text; in every session, no token is pulled from the model
\* after any event has been emitted.
C34_PostAccumulation ==
    \A s \in Sessions :
        LET r == sess[s]
        IN r.events # <<>> =>
              /\ Generated(r) =>
                    /\ r.response_text = r.source
                    /\ r.extractions = 1
              /\ r.pc # "gen"
              /\ r.generations <= 1

C34_Witness ==
    \E s \in Sessions :
        /\ sess[s].app = "mcp"
        /\ sess[s].pc = "words"
        /\ sess[s].pending # <<>>
        /\ sess[s].events # <<>>
        /\ Len(sess[s].source) > MaxToken
        /\ sess[s].response_text = sess[s].source
        /\ sess[s].extractions = 1

\* C35: a session started with tools_enabled = false never causes
\* MCPOrchestrator.handle_tool_call to be invoked, and hence no external
\* lookup, in every interleaving with other sessions, also when one of them
\* sets the shared gate of the orchestrator to true while this one runs.
C35_DisabledNeverDispatches ==
    \A s \in Sessions :
        LET r == sess[s]
        IN (r.app = "mcp" /\ ~r.tools_enabled) =>
              /\ r.pc \notin {"call", "rpc", "result"}
              /\ r.dispatches = 0
              /\ r.lookups = <<>>
              /\ r.result = NoResult
              /\ CountType(r, "tool_call") = 0

C35_Witness ==
    \E s, t \in Sessions :
        /\ s # t
        /\ sess[s].app = "mcp" /\ ~sess[s].tools_enabled
        /\ sess[t].app = "mcp" /\ sess[t].tools_enabled /\ sess[t].pc # "new"
        /\ orch
        /\ sess[s].detected
        /\ sess[s].call.tool_name = StrVal(<<"weather">>)
        /\ Done(s)
        /\ \E i \in DOMAIN sess[s].events : sess[s].events[i] = TokenEvent(ChatNoticeText)

\* the request of r before any of its events was taken
Fresh(r, stream) ==
    [r EXCEPT !.stream = stream, !.events = <<>>, !.frames = <<>>,
              !.content = <<>>, !.tool_calls = <<>>, !.response = NoResponse]

\* r after generate_chat_response took the events
RECURSIVE Collecting(_, _)
Collecting(r, events) ==
    IF events = <<>> THEN r ELSE Collecting(Collect(r, Head(events)), Tail(events))

\* r after generate_chat_stream relayed the events
RECURSIVE Relaying(_, _)
Relaying(r, events) ==
    IF events = <<>> THEN r ELSE Relaying(Relay(r, Head(events)), Tail(events))

\* the content fields of the content frames, joined
RECURSIVE FrameContent(_)
FrameContent(frames) ==
    IF frames = <<>> THEN <<>>
    ELSE (IF Head(frames).type = "content" THEN Head(frames).content ELSE <<>>)
         \o FrameContent(Tail(frames))

\* the events of r came from handle_chat_stream, ran to the end event and
\* hold no error event
CleanRun(r) ==
    /\ r.app = "mcp"
    /\ r.pc = "done"
    /\ r.events # <<>>
    /\ CountType(r, "error") = 0

\* C36: streaming and non-streaming mode agree on content: for every event
\* sequence of handle_chat_stream without an error event, the content
\* fields of the content frames generate_chat_stream sends, joined, equal
\* the content generate_chat_response returns for the same events.
C36_ModesAgree ==
    \A s \in Sessions :
        LET r == sess[s]
        IN CleanRun(r) =>
              /\ r.stream =>
                    FrameContent(r.frames)
                        = Collecting(Fresh(r, FALSE), r.events).response.content
              /\ ~r.stream =>
                    r.response.content
                        = FrameContent(Relaying(Fresh(r, TRUE), r.events).frames)

C36_Witness ==
    \E s \in Sessions :
        /\ CleanRun(sess[s])
        /\ ~sess[s].stream
        /\ sess[s].result.kind = "error"
        /\ CountType(sess[s], "tool_result") = 1
        /\ sess[s].response.kind = "result"
        /\ Len(sess[s].response.content) > 4

\* the tool name of the call of r is one the client lists
Listed(r) == \E t \in client.available_tools : r.call.tool_name = StrVal(<<t>>)

\* C37: after any sequence of connect (succeeding or failing), disconnect
\* and call_tool operations on MCPClient, connected implies that the
\* session is set; call_tool forwards a request to the server session only
\* when connected is true and the tool name is in available_tools; in
\* every other case, and when the forwarded call fails, it returns an
\* error dict and does not raise.
C37_ClientSafe ==
    /\ [](client.connected => client.session)
    /\ [](\A s \in Sessions :
            /\ sess[s].exc = ""
            /\ sess[s].pc = "result" => sess[s].result.kind \in {"error", "result"}
            /\ sess[s].lookups # <<>> => sess[s].pc = "result")
    /\ [][\A s \in Sessions :
            /\ (sess[s].pc = "client" /\ sess'[s].pc = "rpc")
               => (client.connected /\ client.session /\ Listed(sess[s]))
            /\ (sess[s].pc = "client" /\ sess'[s].pc = "result")
               => /\ ~(client.connected /\ Listed(sess[s]))
                  /\ sess'[s].result.kind = "error"]_vars

C37_Witness ==
    \E s \in Sessions :
        /\ sess[s].app = "mcp"
        /\ sess[s].pc = "result"
        /\ sess[s].dispatches = 2
        /\ sess[s].result = ErrorResult(<<"Not connected to MCP server">>)
        /\ ~client.connected /\ client.session
        /\ client.available_tools = {"weather"}

=============================================================================
